---------------------------- MODULE Spec2Model ----------------------------
(***************************************************************************)
(* NASA Mission Control Dashboard: the caching API gateway and the image   *)
(* proxy of the Express backend (routes, nasaApi service, validators and   *)
(* errorHandler), modelled as a state machine.                             *)
(*                                                                         *)
(* Strings that the code inspects character by character (dates, numbers,  *)
(* asteroid ids) are sequences of one-character strings; strings that the  *)
(* code searches with includes/endsWith (host names, error messages) are   *)
(* sequences of tokens.  JSON values are tagged records.  Time is counted  *)
(* in hours; a JavaScript Date is the number of hours since the epoch.     *)
(***************************************************************************)
EXTENDS Integers, Sequences, FiniteSets, TLC

\* ------------------------------------------------------------------ bounds
\* requests that may be in flight at the same time
MaxReq == 1
\* number of clock ticks a behaviour may take
MaxTicks == 2
\* route families (apod and health, mars, neows, proxy) that may have cache
\* entries or requests at the same time; their cache keys are disjoint
MaxFamilies == 1
\* cache lookups (hits plus misses) a cache may have counted when it takes
\* one more request
MaxLookups == 3
\* requests that may be in flight at the same time when requests overlap
MaxPair == 2

\* close approaches an object payload may list when the analysis of
\* /neows/object is called on its own
MaxApproaches == 3

\* largest retryCount a SmartImage is given
MaxRetryCount == 2

\* largest maxRetries withRetry is called with
MaxRetries == 3

\* ------------------------------------------------- JavaScript value helpers
\* undefined / a present value
Undef == <<>>
Some(x) == <<x>>
IsDef(o) == o # <<>>
Val(o) == o[1]

\* a query-string value is truthy when it is present and not ''
TruthyStr(o) == IsDef(o) /\ Val(o) # <<>>

\* JSON values
JNull == [null |-> TRUE]
JBool(b) == [bool |-> b]
JNum(n) == [num |-> n]
JStr(s) == [str |-> s]
JObj(r) == [obj |-> r]
JArr(a) == [arr |-> a]
\* a query-string value (a string or undefined) as a JavaScript value
Q(o) == IF IsDef(o) THEN JStr(Val(o)) ELSE JNull

\* JavaScript truthiness of a JSON value (if (cachedData), if (sol))
Truthy(v) ==
  IF "null" \in DOMAIN v THEN FALSE
  ELSE IF "bool" \in DOMAIN v THEN v.bool
  ELSE IF "num" \in DOMAIN v THEN v.num # 0
  ELSE IF "str" \in DOMAIN v THEN v.str # <<>>
  ELSE TRUE

Digits == {"0", "1", "2", "3", "4", "5", "6", "7", "8", "9"}
DigitVal(c) ==
  CASE c = "0" -> 0 [] c = "1" -> 1 [] c = "2" -> 2 [] c = "3" -> 3
    [] c = "4" -> 4 [] c = "5" -> 5 [] c = "6" -> 6 [] c = "7" -> 7
    [] c = "8" -> 8 [] c = "9" -> 9

\* value of the decimal digits s[lo..hi]
RECURSIVE DecVal(_, _, _)
DecVal(s, lo, hi) ==
  IF hi < lo THEN 0 ELSE DecVal(s, lo, hi - 1) * 10 + DigitVal(s[hi])

\* String.prototype.includes on token sequences: t occurs contiguously in s
Includes(s, t) ==
  \E i \in 0..(Len(s) - Len(t)) : \A j \in 1..Len(t) : s[i + j] = t[j]
\* String.prototype.endsWith
EndsWith(s, t) ==
  /\ Len(t) <= Len(s)
  /\ \A j \in 1..Len(t) : s[Len(s) - Len(t) + j] = t[j]

\* parseInt(s): NaN is <<>>, a number n is <<n>>
NaN == <<>>
IsNaN(x) == x = <<>>
ParseInt(s) ==
  LET neg == Len(s) >= 1 /\ s[1] = "-"
      lo == IF neg THEN 2 ELSE 1
      n == CHOOSE k \in 0..Len(s) :
             /\ \A i \in lo..(lo + k - 1) : i <= Len(s) /\ s[i] \in Digits
             /\ (lo + k > Len(s) \/ s[lo + k] \notin Digits)
  IN IF n = 0 THEN NaN
     ELSE Some((IF neg THEN -1 ELSE 1) * DecVal(s, lo, lo + n - 1))

\* ------------------------------------------------------- the Date object
\* days since 1970-01-01 of the proleptic Gregorian date y-m-d
DaysFromCivil(y, m, d) ==
  LET yy == IF m <= 2 THEN y - 1 ELSE y
      era == yy \div 400
      yoe == yy - era * 400
      mp == IF m > 2 THEN m - 3 ELSE m + 9
      doy == (153 * mp + 2) \div 5 + d - 1
      doe == yoe * 365 + yoe \div 4 - yoe \div 100 + doy
  IN era * 146097 + doe - 719468

\* the calendar date of day number z
CivilFromDays(z) ==
  LET zz == z + 719468
      era == zz \div 146097
      doe == zz - era * 146097
      yoe == (doe - doe \div 1460 + doe \div 36524 - doe \div 146096) \div 365
      doy == doe - (365 * yoe + yoe \div 4 - yoe \div 100)
      mp == (5 * doy + 2) \div 153
      d == doy - (153 * mp + 2) \div 5 + 1
      m == IF mp < 10 THEN mp + 3 ELSE mp - 9
      y == yoe + era * 400 + (IF m <= 2 THEN 1 ELSE 0)
  IN [year |-> y, month |-> m, day |-> d]

\* /^\d{4}-\d{2}-\d{2}$/
DateRegex(s) ==
  /\ Len(s) = 10
  /\ s[5] = "-" /\ s[8] = "-"
  /\ \A i \in {1, 2, 3, 4, 6, 7, 9, 10} : s[i] \in Digits

\* new Date('YYYY-MM-DD') for a string that matches DateRegex: a date-only
\* ISO string is UTC midnight; V8 accepts a day of 1..31 in any month and
\* lets it roll over into the next month; anything else is Invalid Date.
NewDate(s) ==
  LET y == DecVal(s, 1, 4)
      m == DecVal(s, 6, 7)
      d == DecVal(s, 9, 10)
  IN IF m \in 1..12 /\ d \in 1..31
     THEN Some(24 * (DaysFromCivil(y, m, 1) + d - 1))
     ELSE NaN

\* getFullYear / getMonth / getDate read the date in the server's local
\* time, tz hours east of UTC
LocalCivil(t, tz) == CivilFromDays((t + tz) \div 24)

\* Date.toISOString().split('T')[0] of the clock value t
Dig(n) == CHOOSE c \in Digits : DigitVal(c) = n
IsoDate(t) ==
  LET c == CivilFromDays(t \div 24)
  IN << Dig(c.year \div 1000), Dig((c.year \div 100) % 10),
        Dig((c.year \div 10) % 10), Dig(c.year % 10), "-",
        Dig(c.month \div 10), Dig(c.month % 10), "-",
        Dig(c.day \div 10), Dig(c.day % 10) >>

\* --------------------------------------------------------------- validators
validateDate(dateString, tz) ==
  IF ~TruthyStr(dateString) THEN FALSE
  ELSE IF ~DateRegex(Val(dateString)) THEN FALSE
  ELSE LET s == Val(dateString)
           date == NewDate(s)
       IN /\ ~IsNaN(date)
          /\ LocalCivil(Val(date), tz).year = DecVal(s, 1, 4)
          /\ LocalCivil(Val(date), tz).month - 1 = DecVal(s, 6, 7) - 1
          /\ LocalCivil(Val(date), tz).day = DecVal(s, 9, 10)

validateCount(count, min, max) ==
  LET num == ParseInt(count)
  IN ~IsNaN(num) /\ Val(num) >= min /\ Val(num) <= max

validateSol(sol) ==
  LET num == ParseInt(sol)
  IN ~IsNaN(num) /\ Val(num) >= 0 /\ Val(num) <= 10000

validateAsteroidId(asteroidId) ==
  /\ TruthyStr(asteroidId)
  /\ \A i \in 1..Len(Val(asteroidId)) : Val(asteroidId)[i] \in Digits
  /\ Len(Val(asteroidId)) >= 1 /\ Len(Val(asteroidId)) <= 10

validatePage(page) ==
  LET num == ParseInt(page)
  IN ~IsNaN(num) /\ Val(num) >= 1 /\ Val(num) <= 1000

\* toLowerCase / toUpperCase on the rover and camera names the model uses
toLowerCase(s) ==
  CASE s = "Curiosity" -> "curiosity"
    [] s = "MAST" -> "mast"
    [] OTHER -> s
toUpperCase(s) ==
  CASE s = "mast" -> "MAST"
    [] s = "pancam" -> "PANCAM"
    [] s = "curiosity" -> "CURIOSITY"
    [] OTHER -> s

VALID_ROVERS == {"curiosity", "opportunity", "spirit", "perseverance"}
VALID_CAMERAS ==
  [curiosity |-> {"FHAZ", "RHAZ", "MAST", "CHEMCAM", "MAHLI", "MARDI", "NAVCAM"},
   opportunity |-> {"FHAZ", "RHAZ", "NAVCAM", "PANCAM", "MINITES"},
   spirit |-> {"FHAZ", "RHAZ", "NAVCAM", "PANCAM", "MINITES"},
   perseverance |-> {"EDL_RUCAM", "EDL_RDCAM", "EDL_DDCAM", "EDL_PUCAM1",
                     "EDL_PUCAM2", "NAVCAM_LEFT", "NAVCAM_RIGHT", "MCZ_LEFT",
                     "MCZ_RIGHT", "FRONT_HAZCAM_LEFT_A", "FRONT_HAZCAM_RIGHT_A",
                     "REAR_HAZCAM_LEFT", "REAR_HAZCAM_RIGHT", "SKYCAM",
                     "SHERLOC_WATSON"}]

\* camera and rover are one-token strings
validateCamera(camera, rover, validCameras) ==
  IF ~TruthyStr(camera) THEN FALSE
  ELSE IF toLowerCase(rover) \notin DOMAIN validCameras THEN FALSE
  ELSE toUpperCase(Val(camera)[1]) \in validCameras[toLowerCase(rover)]

\* ------------------------------------------------------------ JSON.stringify
RECURSIVE NumText(_)
NumText(n) ==
  IF n < 0 THEN <<"-">> \o NumText(-n)
  ELSE IF n < 10 THEN <<Dig(n)>>
  ELSE NumText(n \div 10) \o <<Dig(n % 10)>>

\* a string with its quotes and backslashes escaped
RECURSIVE Escaped(_)
Escaped(str) ==
  IF str = <<>> THEN <<>>
  ELSE (IF Head(str) \in {"\"", "\\"} THEN <<"\\", Head(str)>> ELSE <<Head(str)>>)
       \o Escaped(Tail(str))
JsonText(v) ==
  IF "str" \in DOMAIN v THEN <<"\"">> \o Escaped(v.str) \o <<"\"">>
  ELSE IF "num" \in DOMAIN v THEN NumText(v.num)
  ELSE IF "bool" \in DOMAIN v THEN (IF v.bool THEN <<"true">> ELSE <<"false">>)
  ELSE <<"null">>

\* params is the object's properties in insertion order, <<[k, v], ...>>
RECURSIVE Members(_, _)
Members(params, n) ==
  IF n = 0 THEN <<>>
  ELSE Members(params, n - 1) \o (IF n > 1 THEN <<",">> ELSE <<>>)
       \o <<"\"", params[n].k, "\"", ":">> \o JsonText(params[n].v)
Stringify(params) == <<"{">> \o Members(params, Len(params)) \o <<"}">>

\* if (x) params.name = x
Prop(name, x) == IF Truthy(x) THEN <<[k |-> name, v |-> x]>> ELSE <<>>

\* ------------------------------------------------------------- node-cache
\* a cache is a function from keys to [v |-> value, t |-> expiry time]
EmptyCache == [k \in {} |-> k]
\* get: the value, or undefined when the key is absent or has expired
CacheGet(c, key, t) ==
  IF key \in DOMAIN c /\ ~(c[key].t < t) THEN Some(c[key].v) ELSE Undef
CacheSet(c, key, v, ttl, t) ==
  [k \in DOMAIN c \cup {key} |-> IF k = key THEN [v |-> v, t |-> t + ttl] ELSE c[k]]
\* the periodic check deletes the expired entries
CacheSweep(c, t) ==
  [k \in {x \in DOMAIN c : ~(c[x].t < t)} |-> c[k]]

\* the hit and miss counters of a cache (getStats): get counts a hit when it
\* finds an unexpired entry, whatever its value, and a miss otherwise
ZeroStats == [hits |-> 0, misses |-> 0]
CountGet(s, c, key, t) ==
  IF IsDef(CacheGet(c, key, t)) THEN [s EXCEPT !.hits = @ + 1]
  ELSE [s EXCEPT !.misses = @ + 1]

\* stdTTL (CACHE_TTL_SECONDS unset) and the 24 hour TTL, in hours
DefaultTTL == 3600 \div 3600
DayTTL == 86400 \div 3600

\* ---------------------------------------------------------- NASAApiService
\* each getX returns the arguments it hands to makeRequest
getAPOD(date, count, startDate, endDate) ==
  LET params == Prop("date", date) \o Prop("count", count)
                \o Prop("start_date", startDate) \o Prop("end_date", endDate)
  IN [endpoint |-> <<"/planetary/apod">>,
      params |-> params,
      cacheKey |-> <<"apod_">> \o Stringify(params),
      cacheTTL |-> 0]

getMarsRoverPhotos(rover, sol, earthDate, camera, page) ==
  LET params == <<[k |-> "page", v |-> page]>> \o Prop("sol", sol)
                \o Prop("earth_date", earthDate) \o Prop("camera", camera)
  IN [endpoint |-> <<"/mars-photos/api/v1/rovers/", rover, "/photos">>,
      params |-> params,
      cacheKey |-> <<"mars_", rover, "_">> \o Stringify(params),
      cacheTTL |-> 0]

getMarsRoverManifest(rover) ==
  [endpoint |-> <<"/mars-photos/api/v1/rovers/", rover>>,
   params |-> <<>>,
   cacheKey |-> <<"mars_manifest_", rover>>,
   cacheTTL |-> DayTTL]

getNearEarthObjects(startDate, endDate, detailed) ==
  LET params == <<[k |-> "detailed_destruction", v |-> JBool(detailed)]>>
                \o Prop("start_date", startDate) \o Prop("end_date", endDate)
  IN [endpoint |-> <<"/neo/rest/v1/feed">>,
      params |-> params,
      cacheKey |-> <<"neows_">> \o Stringify(params),
      cacheTTL |-> 0]

getNearEarthObjectById(asteroidId) ==
  [endpoint |-> <<"/neo/rest/v1/neo/">> \o asteroidId,
   params |-> <<>>,
   cacheKey |-> <<"neows_object_">> \o asteroidId,
   cacheTTL |-> DayTTL]

\* getEPICImages with a cache key that leaves out the type
getEPICImagesKeyedByDate(date, type, t) ==
  LET today == IsoDate(t)
      targetDate == IF Truthy(date) THEN date.str ELSE today
  IN [endpoint |-> <<"/EPIC/api/", type, "/date/">> \o targetDate,
      params |-> <<>>,
      cacheKey |-> <<"epic_">> \o targetDate,
      cacheTTL |-> 0]

getEPICImages(date, type, t) ==
  LET today == IsoDate(t)
      targetDate == IF Truthy(date) THEN date.str ELSE today
  IN [endpoint |-> <<"/EPIC/api/", type, "/date/">> \o targetDate,
      params |-> <<>>,
      cacheKey |-> <<"epic_", type, "_">> \o targetDate,
      cacheTTL |-> 0]

getEPICAvailableDates(type) ==
  [endpoint |-> <<"/EPIC/api/", type, "/all">>,
   params |-> <<>>,
   cacheKey |-> <<"epic_dates_", type>>,
   cacheTTL |-> DayTTL]

\* ------------------------------------------------------------------ errors
\* an Error object: name, code ("" when it has none), message (words),
\* response (undefined, or the upstream's HTTP response)
AxiosHttpError(status) ==
  [name |-> "AxiosError", code |-> "ERR_BAD_RESPONSE",
   message |-> <<"Request", "failed", "with", "status", "code">> \o NumText(status),
   response |-> Some([status |-> status])]
AxiosTimeout ==
  [name |-> "AxiosError", code |-> "ECONNABORTED",
   message |-> <<"timeout", "of", "30000ms", "exceeded">>,
   response |-> Undef]
AxiosNetworkError(code) ==
  [name |-> "Error", code |-> code,
   message |-> IF code = "ENOTFOUND"
               THEN <<"getaddrinfo", "ENOTFOUND", "api.nasa.gov">>
               ELSE IF code = "ECONNREFUSED"
               THEN <<"connect", "ECONNREFUSED", "127.0.0.1:443">>
               ELSE <<"socket", "hang", "up">>,
   response |-> Undef]
NewError(message) ==
  [name |-> "Error", code |-> "", message |-> message, response |-> Undef]

\* error.response?.status, 0 when there is no response
ResponseStatus(error) ==
  IF IsDef(error.response) THEN Val(error.response).status ELSE 0

\* makeRequestCatch with the 5xx test written > 500
makeRequestCatchAbove500(error) ==
  IF ResponseStatus(error) = 429
  THEN NewError(<<"NASA", "API", "rate", "limit", "exceeded", ".",
                  "Please", "try", "again", "later", ".">>)
  ELSE IF ResponseStatus(error) = 403
  THEN NewError(<<"Invalid", "NASA", "API", "key", ".",
                  "Please", "check", "your", "configuration", ".">>)
  ELSE IF IsDef(error.response) /\ ResponseStatus(error) > 500
  THEN NewError(<<"NASA", "API", "is", "currently", "unavailable", ".",
                  "Please", "try", "again", "later", ".">>)
  ELSE NewError(<<"NASA", "API", "request", "failed", ":">> \o error.message)

\* the catch block of makeRequest: the error it throws for an axios error
makeRequestCatch(error) ==
  IF ResponseStatus(error) = 429
  THEN NewError(<<"NASA", "API", "rate", "limit", "exceeded", ".",
                  "Please", "try", "again", "later", ".">>)
  ELSE IF ResponseStatus(error) = 403
  THEN NewError(<<"Invalid", "NASA", "API", "key", ".",
                  "Please", "check", "your", "configuration", ".">>)
  ELSE IF IsDef(error.response) /\ ResponseStatus(error) >= 500
  THEN NewError(<<"NASA", "API", "is", "currently", "unavailable", ".",
                  "Please", "try", "again", "later", ".">>)
  ELSE NewError(<<"NASA", "API", "request", "failed", ":">> \o error.message)

\* a JSON response: status and body
Json(status, body) == [kind |-> "json", status |-> status, body |-> body]

errorHandler(err, nodeEnv) ==
  IF Includes(err.message, <<"NASA", "API", "rate", "limit", "exceeded">>)
  THEN Json(429, [success |-> FALSE, error |-> JStr(<<"Rate limit exceeded">>),
                  message |-> <<"Too many requests to NASA API. Please try again later.">>,
                  retryAfter |-> 3600])
  ELSE IF Includes(err.message, <<"Invalid", "NASA", "API", "key">>)
  THEN Json(403, [success |-> FALSE, error |-> JStr(<<"API key invalid">>),
                  message |-> <<"NASA API key is invalid or missing. Please check server configuration.">>])
  ELSE IF Includes(err.message, <<"NASA", "API", "is", "currently", "unavailable">>)
  THEN Json(503, [success |-> FALSE, error |-> JStr(<<"Service unavailable">>),
                  message |-> <<"NASA API is temporarily unavailable. Please try again later.">>])
  ELSE IF IsDef(err.response)
  THEN Json(Val(err.response).status,
            [success |-> FALSE, error |-> JStr(<<"External API error">>),
             message |-> <<"NASA API returned">> \o NumText(Val(err.response).status)])
  ELSE IF err.name = "ValidationError"
  THEN Json(400, [success |-> FALSE, error |-> JStr(<<"Validation error">>),
                  message |-> err.message])
  ELSE IF err.name = "CastError"
  THEN Json(400, [success |-> FALSE, error |-> JStr(<<"Invalid parameter">>),
                  message |-> <<"Invalid parameter format provided">>])
  ELSE IF err.code = "ECONNABORTED" \/ Includes(err.message, <<"timeout">>)
  THEN Json(408, [success |-> FALSE, error |-> JStr(<<"Request timeout">>),
                  message |-> <<"Request to NASA API timed out. Please try again.">>])
  ELSE IF err.code = "ENOTFOUND" \/ err.code = "ECONNREFUSED"
  THEN Json(503, [success |-> FALSE, error |-> JStr(<<"Network error">>),
                  message |-> <<"Unable to connect to NASA API. Please try again later.">>])
  ELSE Json(500, [success |-> FALSE, error |-> JStr(<<"Internal server error">>),
                  message |-> IF nodeEnv = "production"
                              THEN <<"Something went wrong on our end. Please try again later.">>
                              ELSE err.message])

\* ----------------------------------------------------------- route handlers
\* what a handler does next: answer, or await a makeRequest call (the n-th of
\* the request) keeping its local variables in ctx
Resp(resp) == [t |-> "resp", resp |-> resp]
Call(args, n, ctx) == [t |-> "call", args |-> args, n |-> n, ctx |-> ctx]

Bad(error, message) ==
  Resp(Json(400, [success |-> FALSE, error |-> JStr(<<error>>), message |-> <<message>>]))

\* new Date(a) > new Date(b) for date strings that match DateRegex
DateAfter(a, b) ==
  /\ ~IsNaN(NewDate(a)) /\ ~IsNaN(NewDate(b))
  /\ Val(NewDate(a)) > Val(NewDate(b))
\* Math.ceil((new Date(b) - new Date(a)) / (1000 * 60 * 60 * 24))
DaysDiff(a, b) ==
  LET h == Val(NewDate(b)) - Val(NewDate(a))
  IN -((-h) \div 24)

\* GET /api/apod
ApodPre(q, tz) ==
  IF TruthyStr(q.date) /\ ~validateDate(q.date, tz)
  THEN Bad("Invalid date format", "Date must be in YYYY-MM-DD format")
  ELSE IF TruthyStr(q.count) /\ ~validateCount(Val(q.count), 1, 100)
  THEN Bad("Invalid count", "Count must be between 1 and 100")
  ELSE IF TruthyStr(q.start_date) /\ ~validateDate(q.start_date, tz)
  THEN Bad("Invalid start_date format", "Start date must be in YYYY-MM-DD format")
  ELSE IF TruthyStr(q.end_date) /\ ~validateDate(q.end_date, tz)
  THEN Bad("Invalid end_date format", "End date must be in YYYY-MM-DD format")
  ELSE IF /\ TruthyStr(q.start_date) /\ TruthyStr(q.end_date)
          /\ DateAfter(Val(q.start_date), Val(q.end_date))
  THEN Bad("Invalid date range", "Start date must be before end date")
  ELSE Call(getAPOD(Q(q.date), Q(q.count), Q(q.start_date), Q(q.end_date)), 1, <<>>)

ApodPost(data, t) ==
  Resp(Json(200, [success |-> TRUE, data |-> data,
                  meta |-> [endpoint |-> <<"apod">>, cached |-> TRUE, timestamp |-> t]]))

\* GET /api/apod/range
ApodRangePre(q, tz) ==
  IF ~TruthyStr(q.start_date) \/ ~TruthyStr(q.end_date)
  THEN Bad("Missing parameters", "Both start_date and end_date are required")
  ELSE IF ~validateDate(q.start_date, tz) \/ ~validateDate(q.end_date, tz)
  THEN Bad("Invalid date format", "Dates must be in YYYY-MM-DD format")
  ELSE IF DateAfter(Val(q.start_date), Val(q.end_date))
  THEN Bad("Invalid date range", "Start date must be before end date")
  ELSE LET daysDiff == DaysDiff(Val(q.start_date), Val(q.end_date))
       IN IF daysDiff > 100
          THEN Bad("Date range too large", "Date range cannot exceed 100 days")
          ELSE Call(getAPOD(JNull, JNull, Q(q.start_date), Q(q.end_date)), 1,
                    [daysDiff |-> daysDiff])

ApodRangePost(q, ctx, data, t) ==
  Resp(Json(200, [success |-> TRUE, data |-> data,
                  meta |-> [endpoint |-> <<"apod/range">>, start_date |-> Val(q.start_date),
                            end_date |-> Val(q.end_date), days |-> ctx.daysDiff + 1,
                            cached |-> TRUE, timestamp |-> t]]))

\* GET /api/mars/:rover/photos
MarsPhotosPre(q, tz) ==
  IF toLowerCase(q.rover) \notin VALID_ROVERS
  THEN Bad("Invalid rover", "Rover must be one of: curiosity, opportunity, spirit, perseverance")
  ELSE IF ~TruthyStr(q.sol) /\ ~TruthyStr(q.earth_date)
  THEN Bad("Missing parameter", "Either sol or earth_date parameter is required")
  ELSE IF TruthyStr(q.sol) /\ ~validateSol(Val(q.sol))
  THEN Bad("Invalid sol", "Sol must be a positive integer")
  ELSE IF TruthyStr(q.earth_date) /\ ~validateDate(q.earth_date, tz)
  THEN Bad("Invalid earth_date format", "Earth date must be in YYYY-MM-DD format")
  ELSE IF TruthyStr(q.camera) /\ ~validateCamera(q.camera, toLowerCase(q.rover), VALID_CAMERAS)
  THEN Bad("Invalid camera", "Camera must be one of the rover's cameras")
  ELSE LET pageNum == IF IsDef(q.page) THEN ParseInt(Val(q.page)) ELSE Some(1)
       IN IF IsNaN(pageNum) \/ Val(pageNum) < 1
          THEN Bad("Invalid page", "Page must be a positive integer")
          ELSE Call(getMarsRoverPhotos(
                      toLowerCase(q.rover), Q(q.sol), Q(q.earth_date),
                      IF IsDef(q.camera) THEN JStr(<<toUpperCase(Val(q.camera)[1])>>) ELSE JNull,
                      JNum(Val(pageNum))),
                    1, [pageNum |-> Val(pageNum)])

MarsPhotosPost(q, ctx, data, t) ==
  Resp(Json(200, [success |-> TRUE, data |-> data,
                  meta |-> [endpoint |-> <<"mars/", q.rover, "/photos">>,
                            rover |-> toLowerCase(q.rover),
                            sol |-> IF TruthyStr(q.sol) THEN Q(q.sol) ELSE JNull,
                            earth_date |-> IF TruthyStr(q.earth_date) THEN Q(q.earth_date) ELSE JNull,
                            page |-> ctx.pageNum, cached |-> TRUE, timestamp |-> t]]))

\* GET /api/mars/:rover/latest
MarsLatestPre(q) ==
  IF toLowerCase(q.rover) \notin VALID_ROVERS
  THEN Bad("Invalid rover", "Rover must be one of: curiosity, opportunity, spirit, perseverance")
  ELSE IF TruthyStr(q.camera) /\ ~validateCamera(q.camera, toLowerCase(q.rover), VALID_CAMERAS)
  THEN Bad("Invalid camera", "Camera must be one of the rover's cameras")
  ELSE Call(getMarsRoverManifest(toLowerCase(q.rover)), 1, <<>>)

\* after the manifest (n = 1) the photos of its max_sol are requested; after
\* the photos (n = 2) the response is sent
MarsLatestPost(q, n, ctx, data, t) ==
  IF n = 1
  THEN LET latestSol == data.obj.photo_manifest.max_sol
       IN Call(getMarsRoverPhotos(
                 toLowerCase(q.rover), JNum(latestSol), JNull,
                 IF IsDef(q.camera) THEN JStr(<<toUpperCase(Val(q.camera)[1])>>) ELSE JNull,
                 JNum(1)),
               2, [latestSol |-> latestSol])
  ELSE Resp(Json(200, [success |-> TRUE, data |-> data,
                       meta |-> [endpoint |-> <<"mars/", q.rover, "/latest">>,
                                 rover |-> toLowerCase(q.rover),
                                 latest_sol |-> ctx.latestSol,
                                 cached |-> TRUE, timestamp |-> t]]))

\* the risk assessment of GET /api/neows/feed: the forEach over the close
\* approaches of one object, then over the objects
RECURSIVE ApproachLoop(_, _, _)
ApproachLoop(obj, k, rs) ==
  IF k = 0 THEN rs
  ELSE LET prev == ApproachLoop(obj, k - 1, rs)
           approach == obj.close_approach_data[k]
           distance == approach.miss_distance
       IN [prev EXCEPT
             !.close_approaches = @ + 1,
             !.closest_approach =
               IF ~IsDef(@) \/ distance < Val(@).distance
               THEN Some([object_name |-> obj.name, distance |-> distance,
                          date |-> approach.close_approach_date,
                          velocity |-> approach.relative_velocity])
               ELSE @]

\* ObjectLoop letting a later object of the same diameter replace the largest
RECURSIVE ObjectLoopLastWins(_, _, _)
ObjectLoopLastWins(objs, k, rs) ==
  IF k = 0 THEN rs
  ELSE LET prev == ObjectLoopLastWins(objs, k - 1, rs)
           obj == objs[k]
           counted == [prev EXCEPT !.potentially_hazardous =
                         IF obj.is_potentially_hazardous_asteroid THEN @ + 1 ELSE @]
           scanned == ApproachLoop(obj, Len(obj.close_approach_data), counted)
           diameter == obj.estimated_diameter_max
       IN [scanned EXCEPT
             !.largest_object =
               IF ~IsDef(@) \/ diameter >= Val(@).diameter
               THEN Some([name |-> obj.name, diameter |-> diameter,
                          is_hazardous |-> obj.is_potentially_hazardous_asteroid])
               ELSE @]

RECURSIVE ObjectLoop(_, _, _)
ObjectLoop(objs, k, rs) ==
  IF k = 0 THEN rs
  ELSE LET prev == ObjectLoop(objs, k - 1, rs)
           obj == objs[k]
           counted == [prev EXCEPT !.potentially_hazardous =
                         IF obj.is_potentially_hazardous_asteroid THEN @ + 1 ELSE @]
           scanned == ApproachLoop(obj, Len(obj.close_approach_data), counted)
           diameter == obj.estimated_diameter_max
       IN [scanned EXCEPT
             !.largest_object =
               IF ~IsDef(@) \/ diameter > Val(@).diameter
               THEN Some([name |-> obj.name, diameter |-> diameter,
                          is_hazardous |-> obj.is_potentially_hazardous_asteroid])
               ELSE @]

\* Object.values(data.near_earth_objects).flat()
RECURSIVE Flat(_)
Flat(lists) == IF lists = <<>> THEN <<>> ELSE Head(lists) \o Flat(Tail(lists))

RiskSummary(data) ==
  ObjectLoop(Flat(data.near_earth_objects), Len(Flat(data.near_earth_objects)),
             [total_objects |-> data.element_count, potentially_hazardous |-> 0,
              close_approaches |-> 0, largest_object |-> Undef,
              closest_approach |-> Undef])

\* GET /api/neows/feed; t is the clock
NeoFeedPre(q, tz, t) ==
  LET today == IsoDate(t)
      startDate == IF TruthyStr(q.start_date) THEN Val(q.start_date) ELSE today
      endDate == IF TruthyStr(q.end_date) THEN Val(q.end_date) ELSE today
  IN IF ~validateDate(Some(startDate), tz)
     THEN Bad("Invalid start_date format", "Start date must be in YYYY-MM-DD format")
     ELSE IF ~validateDate(Some(endDate), tz)
     THEN Bad("Invalid end_date format", "End date must be in YYYY-MM-DD format")
     ELSE IF DateAfter(startDate, endDate)
     THEN Bad("Invalid date range", "Start date must be before or equal to end date")
     ELSE LET daysDiff == DaysDiff(startDate, endDate)
          IN IF daysDiff > 7
             THEN Bad("Date range too large", "Date range cannot exceed 7 days")
             ELSE Call(getNearEarthObjects(JStr(startDate), JStr(endDate),
                                           q.detailed = Some(<<"true">>)),
                       1, [startDate |-> startDate, endDate |-> endDate,
                           daysDiff |-> daysDiff])

NeoFeedPost(q, ctx, data, t) ==
  Resp(Json(200, [success |-> TRUE,
                  data |-> JObj([element_count |-> data.obj.element_count,
                                 near_earth_objects |-> data.obj.near_earth_objects,
                                 risk_summary |-> RiskSummary(data.obj)]),
                  meta |-> [endpoint |-> <<"neows/feed">>, start_date |-> ctx.startDate,
                            end_date |-> ctx.endDate, days |-> ctx.daysDiff + 1,
                            detailed |-> (q.detailed = Some(<<"true">>)),
                            cached |-> TRUE, timestamp |-> t]]))

\* categorizeSize, the diameter in metres (0.001 km = 1 m)
categorizeSize(diameterM) ==
  IF diameterM < 1 THEN "TINY"
  ELSE IF diameterM < 10 THEN "SMALL"
  ELSE IF diameterM < 100 THEN "MEDIUM"
  ELSE IF diameterM < 1000 THEN "LARGE"
  ELSE "MASSIVE"

\* FutureApproaches without the sort: the first future approach of the list
FutureApproachesUnsorted(approaches, t) ==
  LET fut == {i \in 1..Len(approaches) :
                /\ ~IsNaN(NewDate(approaches[i].close_approach_date))
                /\ Val(NewDate(approaches[i].close_approach_date)) > t}
  IN IF fut = {} THEN Undef
     ELSE Some(approaches[CHOOSE i \in fut : \A j \in fut : i <= j])

\* the approaches dated after now, in the stable ascending order of their dates
FutureApproaches(approaches, t) ==
  LET fut == {i \in 1..Len(approaches) :
                /\ ~IsNaN(NewDate(approaches[i].close_approach_date))
                /\ Val(NewDate(approaches[i].close_approach_date)) > t}
      Before(i, j) ==
        LET di == Val(NewDate(approaches[i].close_approach_date))
            dj == Val(NewDate(approaches[j].close_approach_date))
        IN di < dj \/ (di = dj /\ i < j)
  IN IF fut = {} THEN Undef
     ELSE Some(approaches[CHOOSE i \in fut : \A j \in fut \ {i} : Before(i, j)])

\* GET /api/neows/object/:id; the id is a path segment, a non-empty string
NeoObjectPre(q) ==
  IF q.id = <<>>
  THEN Bad("Invalid asteroid ID", "Asteroid ID is required and must be a string")
  ELSE Call(getNearEarthObjectById(q.id), 1, <<>>)

NeoObjectPost(q, data, t) ==
  LET next == FutureApproaches(data.obj.close_approach_data, t)
      analysis ==
        [risk_level |-> IF data.obj.is_potentially_hazardous_asteroid THEN "HIGH" ELSE "LOW",
         size_category |-> categorizeSize(data.obj.estimated_diameter_max),
         next_approach |->
           IF IsDef(next)
           THEN Some([date |-> Val(next).close_approach_date,
                      distance_km |-> Val(next).miss_distance,
                      velocity_kmh |-> Val(next).relative_velocity])
           ELSE Undef,
         approach_count |-> Len(data.obj.close_approach_data)]
  IN Resp(Json(200, [success |-> TRUE,
                     data |-> JObj([object |-> data.obj, analysis |-> analysis]),
                     meta |-> [endpoint |-> <<"neows/object/">> \o q.id, asteroid_id |-> q.id,
                               cached |-> TRUE, timestamp |-> t]]))

\* GET /api/epic/latest; type is a one-token string, 'natural' when absent
VALID_TYPES == {"natural", "enhanced"}
EpicType(q) == toLowerCase(IF IsDef(q.type) THEN Val(q.type) ELSE "natural")
EpicLatestPre(q) ==
  IF EpicType(q) \notin VALID_TYPES
  THEN Bad("Invalid type", "Type must be one of: natural, enhanced")
  ELSE Call(getEPICAvailableDates(EpicType(q)), 1, <<>>)

\* image.date.split(' ')[0].replace(/-/g, '/'); an image's date is its day
\* (YYYY-MM-DD) and its time of day
DatePath(date) == [i \in 1..Len(date.day) |-> IF date.day[i] = "-" THEN "/" ELSE date.day[i]]
EnhanceEpic(image, type) ==
  [image |-> image.image, date |-> image.date,
   image_url |-> <<"https://api.nasa.gov/EPIC/archive/", type, "/">> \o DatePath(image.date)
                 \o <<"/png/", image.image, ".png?api_key=", "DEMO_KEY">>,
   thumbnail_url |-> <<"https://api.nasa.gov/EPIC/archive/", type, "/">> \o DatePath(image.date)
                     \o <<"/thumbs/", image.image, ".jpg?api_key=", "DEMO_KEY">>]

\* EpicLatestPost asking for the images of the last date of the list
EpicLatestPostLastDate(q, n, ctx, data, t) ==
  IF n = 1
  THEN IF ~Truthy(data) \/ data.arr = <<>>
       THEN Resp(Json(404, [success |-> FALSE, error |-> JStr(<<"No data available">>),
                            message |-> <<"No EPIC images available for the specified type">>]))
       ELSE LET latestDate == data.arr[Len(data.arr)].date
            IN Call(getEPICImages(JStr(latestDate), EpicType(q), t), 2,
                    [latestDate |-> latestDate])
  ELSE LET enhancedData == [i \in 1..Len(data.arr) |-> EnhanceEpic(data.arr[i], EpicType(q))]
       IN Resp(Json(200, [success |-> TRUE, data |-> JArr(enhancedData),
                          meta |-> [endpoint |-> <<"epic/latest">>, date |-> ctx.latestDate,
                                    type |-> EpicType(q), count |-> Len(enhancedData),
                                    cached |-> TRUE, timestamp |-> t]]))

\* after the dates (n = 1) the images of the first date are requested, or 404
\* is answered; after the images (n = 2) the response is sent
EpicLatestPost(q, n, ctx, data, t) ==
  IF n = 1
  THEN IF ~Truthy(data) \/ data.arr = <<>>
       THEN Resp(Json(404, [success |-> FALSE, error |-> JStr(<<"No data available">>),
                            message |-> <<"No EPIC images available for the specified type">>]))
       ELSE LET latestDate == data.arr[1].date
            IN Call(getEPICImages(JStr(latestDate), EpicType(q), t), 2,
                    [latestDate |-> latestDate])
  ELSE LET enhancedData == [i \in 1..Len(data.arr) |-> EnhanceEpic(data.arr[i], EpicType(q))]
       IN Resp(Json(200, [success |-> TRUE, data |-> JArr(enhancedData),
                          meta |-> [endpoint |-> <<"epic/latest">>, date |-> ctx.latestDate,
                                    type |-> EpicType(q), count |-> Len(enhancedData),
                                    cached |-> TRUE, timestamp |-> t]]))

\* GET /api/health: the connectivity test is getAPOD(); the report after it
HealthPre == Call(getAPOD(JNull, JNull, JNull, JNull), 1, <<>>)

HealthReport(nasa_api, nodeEnv, cache, t) ==
  Resp(Json(200, [success |-> TRUE,
                  data |-> JObj([status |-> "operational", timestamp |-> t,
                                 environment |-> IF nodeEnv = "" THEN "development" ELSE nodeEnv,
                                 services |-> [api |-> "operational", cache |-> "operational",
                                               nasa_api |-> nasa_api],
                                 cache |-> [status |-> "operational",
                                            keys |-> Cardinality(DOMAIN cache)]])]))

\* the synchronous start of a route's handler
Pre(route, q, tz, t) ==
  CASE route = "apod" -> ApodPre(q, tz)
    [] route = "apod/range" -> ApodRangePre(q, tz)
    [] route = "mars/photos" -> MarsPhotosPre(q, tz)
    [] route = "mars/latest" -> MarsLatestPre(q)
    [] route = "neows/feed" -> NeoFeedPre(q, tz, t)
    [] route = "neows/object" -> NeoObjectPre(q)
    [] route = "epic/latest" -> EpicLatestPre(q)
    [] route = "health" -> HealthPre

\* the handler's code after its n-th makeRequest has returned data
Post(route, q, n, ctx, data, nodeEnv, cache, t) ==
  CASE route = "apod" -> ApodPost(data, t)
    [] route = "apod/range" -> ApodRangePost(q, ctx, data, t)
    [] route = "mars/photos" -> MarsPhotosPost(q, ctx, data, t)
    [] route = "mars/latest" -> MarsLatestPost(q, n, ctx, data, t)
    [] route = "neows/feed" -> NeoFeedPost(q, ctx, data, t)
    [] route = "neows/object" -> NeoObjectPost(q, data, t)
    [] route = "epic/latest" -> EpicLatestPost(q, n, ctx, data, t)
    [] route = "health" -> HealthReport("operational", nodeEnv, cache, t)

\* the handler's catch block for an error thrown by makeRequest: the health
\* check reports it, every other route hands it to errorHandler
Caught(route, err, nodeEnv, cache, t) ==
  IF route = "health" THEN HealthReport("degraded", nodeEnv, cache, t)
  ELSE Resp(errorHandler(err, nodeEnv))

\* ------------------------------------------------------------- image proxy
allowedDomains ==
  { <<"apod", ".", "nasa", ".", "gov">>,
    <<"mars", ".", "nasa", ".", "gov">>,
    <<"api", ".", "nasa", ".", "gov">>,
    <<"epic", ".", "gsfc", ".", "nasa", ".", "gov">>,
    <<"photojournal", ".", "jpl", ".", "nasa", ".", "gov">> }

\* new URL(url): a URL is its scheme, the tokens of its host name and its
\* path; a string that does not start with a scheme makes new URL throw
Schemes == {"https://", "http://"}
UrlValid(url) == Len(url) >= 2 /\ url[1] \in Schemes
UrlHostname(url) == SubSeq(url, 2, Len(url) - 1)
InvalidUrlError ==
  [name |-> "TypeError", code |-> "ERR_INVALID_URL",
   message |-> <<"Invalid", "URL">>, response |-> Undef]

isAllowedDomain(hostname) ==
  \E domain \in allowedDomains :
    Includes(hostname, domain) \/ EndsWith(hostname, domain)

\* `image_${Buffer.from(url).toString('base64')}`: base64 is one-to-one, the
\* encoded text is written as the url between two marks
ImageCacheKey(url) == <<"image_", "base64(">> \o url \o <<")">>

ImageResponse(data, contentType, xCache) ==
  [kind |-> "image", status |-> 200,
   headers |-> [ContentType |-> contentType, ContentLength |-> Len(data), XCache |-> xCache],
   data |-> data]

\* ProxyCaught answering a generic 500 instead of handing on to errorHandler
ProxyCaughtGeneric(error, nodeEnv) ==
  IF error.code = "ECONNABORTED" \/ Includes(error.message, <<"timeout">>)
  THEN Json(408, [success |-> FALSE, error |-> JStr(<<"Request timeout">>),
                  message |-> <<"Image request timed out">>])
  ELSE IF ResponseStatus(error) = 404
  THEN Json(404, [success |-> FALSE, error |-> JStr(<<"Image not found">>),
                  message |-> <<"The requested image could not be found">>])
  ELSE Json(500, [success |-> FALSE, error |-> JStr(<<"Internal server error">>),
                  message |-> error.message])

\* the catch block of GET /api/proxy/image
ProxyCaught(error, nodeEnv) ==
  IF error.code = "ECONNABORTED" \/ Includes(error.message, <<"timeout">>)
  THEN Json(408, [success |-> FALSE, error |-> JStr(<<"Request timeout">>),
                  message |-> <<"Image request timed out">>])
  ELSE IF ResponseStatus(error) = 404
  THEN Json(404, [success |-> FALSE, error |-> JStr(<<"Image not found">>),
                  message |-> <<"The requested image could not be found">>])
  ELSE errorHandler(error, nodeEnv)

\* the handler up to its await: a response, or the outbound fetch
ProxyImagePre(url, imgCache, nodeEnv, t) ==
  IF ~TruthyStr(url)
  THEN Resp(Json(400, [success |-> FALSE, error |-> JStr(<<"Missing URL parameter">>),
                       message |-> <<"Image URL is required">>]))
  ELSE IF ~UrlValid(Val(url))
  THEN Resp(ProxyCaught(InvalidUrlError, nodeEnv))
  ELSE IF ~isAllowedDomain(UrlHostname(Val(url)))
  THEN Resp(Json(403, [success |-> FALSE, error |-> JStr(<<"Forbidden domain">>),
                       message |-> <<"Only NASA domains are allowed">>]))
  ELSE LET cacheKey == ImageCacheKey(Val(url))
           cachedImage == CacheGet(imgCache, cacheKey, t)
       IN IF IsDef(cachedImage)
          THEN Resp(ImageResponse(Val(cachedImage).data, Val(cachedImage).contentType, "HIT"))
          ELSE [t |-> "fetch", url |-> Val(url), cacheKey |-> cacheKey]

\* ---------------------------------------------- validators, called directly
\* undefined as an argument value; typeof v === 'string'
JUndefined == [undefined |-> TRUE]
IsString(v) == "str" \in DOMAIN v
IsNullish(v) == "undefined" \in DOMAIN v \/ "null" \in DOMAIN v
\* an argument as the validators above take it: its characters when it is a
\* string, undefined otherwise (they answer false to every non-string)
AsOptStr(v) == IF IsString(v) THEN Some(v.str) ELSE Undef
\* how a call ends: it returns a value or throws
Ret(v) == [ret |-> v]
Threw(e) == [threw |-> e]

\* startDate, endDate: a string or undefined; maxDays: a number
validateDateRange(startDate, endDate, maxDays, tz) ==
  IF ~validateDate(startDate, tz)
  THEN [isValid |-> FALSE, message |-> <<"Invalid start date format">>]
  ELSE IF ~validateDate(endDate, tz)
  THEN [isValid |-> FALSE, message |-> <<"Invalid end date format">>]
  ELSE IF DateAfter(Val(startDate), Val(endDate))
  THEN [isValid |-> FALSE,
        message |-> <<"Start date must be before or equal to end date">>]
  ELSE LET daysDiff == DaysDiff(Val(startDate), Val(endDate))
       IN IF daysDiff > maxDays
          THEN [isValid |-> FALSE,
                message |-> <<"Date range cannot exceed">> \o NumText(maxDays)
                            \o <<"days">>]
          ELSE [isValid |-> TRUE, days |-> daysDiff + 1]

\* property names every object literal inherits from Object.prototype
InheritedKeys == {"constructor", "valueOf", "toString", "hasOwnProperty"}
\* validateCamera called with any values: rover.toLowerCase() throws when
\* rover is not a string, and roverCameras.includes throws when the lowered
\* rover names an inherited property of validCameras
validateCameraCall(camera, rover, validCameras) ==
  IF ~(Truthy(camera) /\ IsString(camera)) THEN Ret(FALSE)
  ELSE IF ~IsString(rover) THEN Threw("TypeError")
  ELSE IF toLowerCase(rover.str) \in InheritedKeys THEN Threw("TypeError")
  ELSE Ret(validateCamera(Some(camera.str), rover.str, validCameras))

\* params[key] of an object given as its properties <<[k, v], ...>>
ParamOf(props, key) ==
  IF \E i \in 1..Len(props) : props[i].k = key
  THEN props[CHOOSE i \in 1..Len(props) : props[i].k = key].v
  ELSE JUndefined
\* the errors of the first n rules; every rule's validator is validateDate
RECURSIVE QueryErrors(_, _, _, _)
QueryErrors(params, rules, n, tz) ==
  IF n = 0 THEN <<>>
  ELSE LET key == rules[n].k
           rule == rules[n].v
           value == ParamOf(params, key)
           absent == IsNullish(value) \/ (IsString(value) /\ value.str = <<>>)
           errors == QueryErrors(params, rules, n - 1, tz)
       IN IF rule.required /\ absent THEN Append(errors, <<key, "is required">>)
          ELSE IF absent THEN errors
          ELSE IF ~validateDate(AsOptStr(value), tz) THEN Append(errors, rule.message)
          ELSE errors
\* Object.entries(rules) throws when rules is undefined or null, params[key]
\* throws when params is and there is a rule
validateQueryParams(params, rules, tz) ==
  IF IsNullish(rules) THEN Threw("TypeError")
  ELSE IF rules.obj = <<>> THEN Ret([isValid |-> TRUE, errors |-> <<>>])
  ELSE IF IsNullish(params) THEN Threw("TypeError")
  ELSE LET errors == QueryErrors(params.obj, rules.obj, Len(rules.obj), tz)
       IN Ret([isValid |-> errors = <<>>, errors |-> errors])

\* ------------------------------------------------------------ environment
\* the clock at start-up: 2024-01-10 23:00 UTC, in hours
StartTime == 24 * DaysFromCivil(2024, 1, 10) + 23

\* 'YYYY-MM-DD' of three numbers
DateStr(y, m, d) ==
  << Dig(y \div 1000), Dig((y \div 100) % 10), Dig((y \div 10) % 10), Dig(y % 10), "-",
     Dig(m \div 10), Dig(m % 10), "-", Dig(d \div 10), Dig(d % 10) >>

NodeEnvs == {"", "development", "production", "test"}
TZOffsets == {-5, 0}

\* arguments of the direct calls of the validators
DateArgs ==
  { JUndefined, JNull, JNum(20240107), JStr(<<>>),
    JStr(DateStr(2024, 1, 1)), JStr(DateStr(2024, 1, 7)), JStr(DateStr(2024, 1, 8)),
    JStr(DateStr(2024, 1, 9)), JStr(DateStr(2024, 2, 30)),
    JStr(<<"2", "0", "2", "4", "-", "1", "-", "7">>) }
\* maxDays, undefined for the default of 7
MaxDaysArgs == {Undef, Some(1), Some(7)}
CameraArgs == {JUndefined, JNull, JStr(<<>>), JStr(<<"mast">>), JStr(<<"PANCAM">>)}
RoverArgs ==
  {JUndefined, JNull, JNum(1), JStr("Curiosity"), JStr("spirit"), JStr("voyager"),
   JStr("constructor")}
DateRules ==
  { JUndefined, JNull, JObj(<<>>),
    JObj(<<[k |-> "date", v |-> [required |-> TRUE, message |-> <<"Invalid date">>]]>>),
    JObj(<<[k |-> "start_date", v |-> [required |-> TRUE, message |-> <<"Invalid start">>]],
           [k |-> "date", v |-> [required |-> FALSE, message |-> <<"Invalid date">>]]>>) }
DateParams ==
  { JUndefined, JNull, JObj(<<>>) }
  \cup { JObj(<<[k |-> "date", v |-> d]>>) : d \in DateArgs }

\* query strings the clients send
ApodQueries ==
  { [date |-> d, count |-> c, start_date |-> Undef, end_date |-> Undef] :
      d \in {Undef, Some(DateStr(2024, 2, 30))}, c \in {Undef} }
  \cup { [date |-> Undef, count |-> c, start_date |-> Undef, end_date |-> Undef] :
           c \in {Some(<<"1", "0", "1">>)} }
ApodRangeQueries ==
  { [start_date |-> Some(DateStr(2024, 1, 1)), end_date |-> e] :
      e \in {Some(DateStr(2024, 4, 9)), Some(DateStr(2024, 4, 10)),
             Some(DateStr(2024, 4, 11)), Undef} }
MarsPhotosQueries ==
  { [rover |-> "curiosity", sol |-> Some(<<"5">>), earth_date |-> Undef,
     camera |-> Undef, page |-> pg] :
      pg \in {Undef, Some(<<"0">>), Some(<<"1", "0", "0", "1">>)} }
  \cup { [rover |-> rv, sol |-> sl, earth_date |-> Undef, camera |-> cam, page |-> Undef] :
           rv \in {"voyager"}, sl \in {Some(<<"5">>)}, cam \in {Undef} }
  \cup { [rover |-> "curiosity", sol |-> Some(<<"1", "0", "0", "0", "1">>),
          earth_date |-> Undef, camera |-> Undef, page |-> Undef],
         [rover |-> "curiosity", sol |-> Some(<<"5">>), earth_date |-> Undef,
          camera |-> Some(<<"pancam">>), page |-> Undef],
         [rover |-> "curiosity", sol |-> Undef, earth_date |-> Some(DateStr(2024, 2, 30)),
          camera |-> Undef, page |-> Undef] }
MarsLatestQueries ==
  { [rover |-> rv, camera |-> Undef] : rv \in {"Curiosity", "voyager"} }
NeoFeedQueries ==
  { [start_date |-> Some(DateStr(2024, 1, 1)), end_date |-> e, detailed |-> Undef] :
      e \in {Some(DateStr(2024, 1, 7)), Some(DateStr(2024, 1, 8)),
             Some(DateStr(2024, 1, 9)), Some(<<"2", "0", "2", "4", "-", "1", "-", "7">>)} }
  \cup { [start_date |-> Some(DateStr(2024, 1, 8)), end_date |-> Some(DateStr(2024, 1, 1)),
          detailed |-> Some(<<"true">>)] }
NeoObjectQueries ==
  { [id |-> i] : i \in { <<"3", "5", "4", "2">>, <<"a", "b", "c">>,
                         <<"1", "2", "3", "4", "5", "6", "7", "8", "9", "0", "1">> } }
EpicLatestQueries == { [type |-> ty] : ty \in {Undef, Some("infrared")} }
ImageUrls ==
  { Some(<<"https://", "apod", ".", "nasa", ".", "gov", "/x.jpg">>),
    Some(<<"https://", "images", ".", "mars", ".", "nasa", ".", "gov", "/x.jpg">>),
    Some(<<"https://", "evil", ".", "example", ".", "com", "/x.jpg">>),
    Some(<<"https://", "apod", ".", "nasa", ".", "gov", ".", "evil", ".", "com", "/x.jpg">>),
    Some(<<"x.jpg">>),
    Undef }

\* what the upstream may answer
ApodPayloads ==
  { JNull, JBool(FALSE), JNum(0), JStr(<<>>),
    JObj([title |-> "A"]), JObj([title |-> "B"]) }
ManifestSols == {0, 1000}
NeoObjects ==
  { [name |-> "Eros", is_potentially_hazardous_asteroid |-> TRUE,
     estimated_diameter_max |-> 950,
     close_approach_data |->
       << [close_approach_date |-> DateStr(2024, 2, 1), miss_distance |-> 500,
           relative_velocity |-> 20],
          [close_approach_date |-> DateStr(2024, 1, 9), miss_distance |-> 300,
           relative_velocity |-> 30],
          [close_approach_date |-> DateStr(2024, 1, 11), miss_distance |-> 300,
           relative_velocity |-> 10] >>] }
NeoFeeds ==
  { [element_count |-> 2,
     near_earth_objects |->
       << << [name |-> "A", is_potentially_hazardous_asteroid |-> FALSE,
              estimated_diameter_max |-> 500, close_approach_data |-> <<>>] >>,
          << CHOOSE o \in NeoObjects : TRUE >> >>] }

\* payloads for the analyses of the NEO routes called on their own: objects
\* named by their place in the feed, approaches dated by their place in the
\* object
ObjectShapes ==
  [ hazardous : BOOLEAN, diameter : {1, 2},
    distances : {<<>>, <<1>>, <<2>>, <<1, 1>>, <<1, 2>>, <<2, 1>>} ]
ShapedObject(name, shape) ==
  [name |-> name, is_potentially_hazardous_asteroid |-> shape.hazardous,
   estimated_diameter_max |-> shape.diameter,
   close_approach_data |->
     [k \in 1..Len(shape.distances) |->
        [close_approach_date |-> DateStr(2024, 1, 10 + k),
         miss_distance |-> shape.distances[k], relative_velocity |-> 10 * k]]]
FeedArgs ==
  { [element_count |-> Len(d1) + Len(d2), near_earth_objects |-> <<d1, d2>>] :
      d1 \in {<<>>} \cup {<<ShapedObject("A", a)>> : a \in ObjectShapes},
      d2 \in {<<>>} \cup {<<ShapedObject("B", b)>> : b \in ObjectShapes}
             \cup {<<ShapedObject("B", b), ShapedObject("C", c)>> :
                     b \in ObjectShapes, c \in ObjectShapes} }
ApproachDates ==
  {DateStr(2024, 1, 10), DateStr(2024, 1, 11), DateStr(2024, 1, 12), DateStr(2024, 13, 1)}
ApproachLists ==
  UNION { [1..n -> ApproachDates] : n \in 0..MaxApproaches }
ObjectArgs ==
  { [name |-> "Eros", is_potentially_hazardous_asteroid |-> FALSE,
     estimated_diameter_max |-> 950,
     close_approach_data |->
       [k \in 1..Len(ds) |-> [close_approach_date |-> ds[k], miss_distance |-> 100 * k,
                              relative_velocity |-> 10 * k]]] :
      ds \in ApproachLists }

EpicDates ==
  { JNull, JArr(<<>>),
    JArr(<<[date |-> DateStr(2024, 1, 9)], [date |-> DateStr(2024, 1, 8)]>>) }
EpicImages ==
  { JArr(<<[image |-> "epic_1b_20240109003633",
            date |-> [day |-> DateStr(2024, 1, 9), time |-> "00:31:45"]]>>) }

Payloads(args) ==
  IF args.endpoint[1] = "/EPIC/api/"
  THEN (IF args.endpoint[3] = "/all" THEN EpicDates ELSE EpicImages)
  ELSE IF args.endpoint[1] = "/planetary/apod"
  THEN (IF args.params = <<>> THEN ApodPayloads ELSE {JArr(<<"apod">>)})
  ELSE IF args.endpoint[1] = "/mars-photos/api/v1/rovers/"
  THEN (IF Len(args.endpoint) = 3 THEN {JObj([photos |-> <<"photo">>])}
        ELSE {JObj([photo_manifest |-> [max_sol |-> m]]) : m \in ManifestSols})
  ELSE IF args.endpoint[1] = "/neo/rest/v1/feed" THEN {JObj(f) : f \in NeoFeeds}
  ELSE {JObj(o) : o \in NeoObjects}

UpstreamErrors ==
  {AxiosHttpError(st) : st \in {403, 404, 429, 500, 503}}
  \cup {AxiosTimeout, AxiosNetworkError("ENOTFOUND"), AxiosNetworkError("ECONNREFUSED"),
        AxiosNetworkError("ECONNRESET")}

Images == { [data |-> <<"b1", "b2">>, contentType |-> Some("image/png")],
            [data |-> <<"b3">>, contentType |-> Undef] }

\* ------------------------------------------------------------------- state
VARIABLES
  now,          \* the clock, in hours since the epoch
  nodeEnv,      \* process.env.NODE_ENV, "" when it is not set
  tz,           \* the server's time zone, hours east of UTC
  cache,        \* the NodeCache of the nasaApi service
  imageCache,   \* the NodeCache of the proxy routes
  stats,        \* the hit and miss counters of cache
  imageStats,   \* the hit and miss counters of imageCache
  req,          \* the requests being handled, by slot
  client        \* the client-side component or helper under study

vars == <<now, nodeEnv, tz, cache, imageCache, stats, imageStats, req, client>>

\* the request slots; a behaviour that handles fewer requests at a time leaves
\* the other slots closed
Reqs == 1..MaxPair
Idle == [pc |-> "idle"]
\* no client-side code is running
NoClient == [kind |-> "none"]
Off == [pc |-> "off"]

Init ==
  /\ now = StartTime
  /\ nodeEnv \in NodeEnvs
  /\ tz \in TZOffsets
  /\ cache = EmptyCache
  /\ imageCache = EmptyCache
  /\ stats = ZeroStats
  /\ imageStats = ZeroStats
  /\ client = NoClient
  /\ req = [r \in Reqs |-> IF r <= MaxReq THEN Idle ELSE Off]

\* the family of routes a cache key or a route belongs to
KeyFamily(key) ==
  IF key[1] = "apod_" THEN "apod"
  ELSE IF key[1] \in {"mars_", "mars_manifest_"} THEN "mars"
  ELSE IF key[1] \in {"epic_", "epic_dates_"} THEN "epic"
  ELSE "neows"
RouteFamily(route) ==
  IF route \in {"apod", "apod/range", "health", "health/cache/clear"} THEN "apod"
  ELSE IF route \in {"mars/photos", "mars/latest"} THEN "mars"
  ELSE IF route \in {"neows/feed", "neows/object"} THEN "neows"
  ELSE IF route = "epic/latest" THEN "epic"
  ELSE "proxy"
ActiveFamilies ==
  {KeyFamily(k) : k \in DOMAIN cache}
  \cup (IF DOMAIN imageCache = {} THEN {} ELSE {"proxy"})
  \cup {RouteFamily(req[r].route) : r \in {x \in Reqs : req[x].pc \notin {"idle", "off"}}}
CanServe(route) == Cardinality(ActiveFamilies \cup {RouteFamily(route)}) <= MaxFamilies

\* makeRequest up to its await, and the handler's code that follows a cache
\* hit: a step that is a call whose key is cached with a truthy value goes on
\* with the cached value (the actions do so at most twice: no handler makes
\* more than two calls)
CacheHit(step, c, t) ==
  /\ step.t = "call"
  /\ IsDef(CacheGet(c, step.args.cacheKey, t))
  /\ Truthy(Val(CacheGet(c, step.args.cacheKey, t)))
Resolve(route, q, step, c, env, t) ==
  IF CacheHit(step, c, t)
  THEN Post(route, q, step.n, step.ctx, Val(CacheGet(c, step.args.cacheKey, t)), env, c, t)
  ELSE step

\* the counters after the cache.get of the makeRequest of step and, when that
\* is a hit, of the makeRequest of the step that follows it
StatsAfter(step, next, c, t, s) ==
  IF step.t # "call" THEN s
  ELSE IF CacheHit(step, c, t) /\ next.t = "call"
  THEN CountGet(CountGet(s, c, step.args.cacheKey, t), c, next.args.cacheKey, t)
  ELSE CountGet(s, c, step.args.cacheKey, t)

\* a cache that has counted fewer lookups than the bound takes one more request
HasRoom(s) == s.hits + s.misses < MaxLookups

\* the request after the step: answered, or awaiting the upstream
After(route, q, calls, step) ==
  IF step.t = "resp"
  THEN [pc |-> "done", route |-> route, q |-> q, calls |-> calls, resp |-> step.resp]
  ELSE [pc |-> "await", route |-> route, q |-> q, call |-> step,
        calls |-> Append(calls, [endpoint |-> step.args.endpoint,
                                 params |-> step.args.params, result |-> "pending",
                                 error |-> Undef, payload |-> Undef])]

\* a request arrives at an API route and runs to its response or first await
Begin(r, route, q) ==
  /\ req[r].pc = "idle"
  /\ CanServe(route)
  /\ HasRoom(stats)
  /\ \E pre \in {Pre(route, q, tz, now)} :
     \E next \in {Resolve(route, q, pre, cache, nodeEnv, now)} :
     \E step \in {Resolve(route, q, next, cache, nodeEnv, now)} :
       /\ req' = [req EXCEPT ![r] = After(route, q, <<>>, step)]
       /\ stats' = StatsAfter(pre, next, cache, now, stats)
  /\ UNCHANGED <<now, nodeEnv, tz, cache, imageCache, imageStats, client>>

ApodGet(r) == \E q \in ApodQueries : Begin(r, "apod", q)
ApodRange(r) == \E q \in ApodRangeQueries : Begin(r, "apod/range", q)
MarsPhotos(r) == \E q \in MarsPhotosQueries : Begin(r, "mars/photos", q)
MarsLatest(r) == \E q \in MarsLatestQueries : Begin(r, "mars/latest", q)
NeoFeed(r) == \E q \in NeoFeedQueries : Begin(r, "neows/feed", q)
NeoObject(r) == \E q \in NeoObjectQueries : Begin(r, "neows/object", q)
EpicLatest(r) == \E q \in EpicLatestQueries : Begin(r, "epic/latest", q)
Health(r) == Begin(r, "health", <<>>)

\* the log with the result of its last call: "ok" and the payload received,
\* or "failed" and the error
Closed(calls, result, error, payload) ==
  [calls EXCEPT ![Len(calls)].result = result, ![Len(calls)].error = error,
                ![Len(calls)].payload = payload]

\* cache.set(cacheKey, data, cacheTTL || 3600) of makeRequest
Stored(c, args, payload, t) ==
  CacheSet(c, args.cacheKey, payload,
           IF args.cacheTTL # 0 THEN args.cacheTTL ELSE DefaultTTL, t)

\* UpstreamOk leaving an entry that another request has stored meanwhile
UpstreamOkKeepsFirst(r) ==
  /\ req[r].pc = "await"
  /\ req[r].route # "proxy/image"
  /\ \E payload \in Payloads(req[r].call.args) :
       \E c1 \in {IF req[r].call.args.cacheKey \in DOMAIN cache THEN cache
                   ELSE Stored(cache, req[r].call.args, payload, now)} :
       \E post \in {Post(req[r].route, req[r].q, req[r].call.n, req[r].call.ctx, payload,
                         nodeEnv, c1, now)} :
       \E next \in {Resolve(req[r].route, req[r].q, post, c1, nodeEnv, now)} :
       \E step \in {Resolve(req[r].route, req[r].q, next, c1, nodeEnv, now)} :
         /\ cache' = c1
         /\ stats' = StatsAfter(post, next, c1, now, stats)
         /\ req' = [req EXCEPT ![r] =
                      After(req[r].route, req[r].q,
                            Closed(req[r].calls, "ok", Undef, Some(payload)), step)]
  /\ UNCHANGED <<now, nodeEnv, tz, imageCache, imageStats, client>>

\* the upstream answers the awaited call with a payload: makeRequest caches
\* and returns it, and the handler runs on to its response or next await
UpstreamOk(r) ==
  /\ req[r].pc = "await"
  /\ req[r].route # "proxy/image"
  /\ \E payload \in Payloads(req[r].call.args) :
       \E c1 \in {Stored(cache, req[r].call.args, payload, now)} :
       \E post \in {Post(req[r].route, req[r].q, req[r].call.n, req[r].call.ctx, payload,
                         nodeEnv, c1, now)} :
       \E next \in {Resolve(req[r].route, req[r].q, post, c1, nodeEnv, now)} :
       \E step \in {Resolve(req[r].route, req[r].q, next, c1, nodeEnv, now)} :
         /\ cache' = c1
         /\ stats' = StatsAfter(post, next, c1, now, stats)
         /\ req' = [req EXCEPT ![r] =
                      After(req[r].route, req[r].q,
                            Closed(req[r].calls, "ok", Undef, Some(payload)), step)]
  /\ UNCHANGED <<now, nodeEnv, tz, imageCache, imageStats, client>>

\* UpstreamFail caching an empty payload for the failed call
UpstreamFailStoresNull(r) ==
  /\ req[r].pc = "await"
  /\ req[r].route # "proxy/image"
  /\ \E error \in UpstreamErrors :
       LET rr == req[r]
           step == Caught(rr.route, makeRequestCatch(error), nodeEnv, cache, now)
       IN req' = [req EXCEPT ![r] =
                    After(rr.route, rr.q, Closed(rr.calls, "failed", Some(error), Undef), step)]
  /\ cache' = Stored(cache, req[r].call.args, JNull, now)
  /\ UNCHANGED <<now, nodeEnv, tz, imageCache, stats, imageStats, client>>

\* UpstreamFail issuing the failed call once more instead of throwing
UpstreamFailRetries(r) ==
  /\ req[r].pc = "await"
  /\ req[r].route # "proxy/image"
  /\ \E error \in UpstreamErrors :
       LET rr == req[r]
       IN req' = [req EXCEPT ![r] =
                    After(rr.route, rr.q, Closed(rr.calls, "failed", Some(error), Undef), rr.call)]
  /\ UNCHANGED <<now, nodeEnv, tz, cache, imageCache, stats, imageStats, client>>

\* the awaited call fails: makeRequest throws, the handler's catch answers
UpstreamFail(r) ==
  /\ req[r].pc = "await"
  /\ req[r].route # "proxy/image"
  /\ \E error \in UpstreamErrors :
       LET rr == req[r]
           step == Caught(rr.route, makeRequestCatch(error), nodeEnv, cache, now)
       IN req' = [req EXCEPT ![r] =
                    After(rr.route, rr.q, Closed(rr.calls, "failed", Some(error), Undef), step)]
  /\ UNCHANGED <<now, nodeEnv, tz, cache, imageCache, stats, imageStats, client>>

\* GET /api/proxy/image up to its response or its outbound fetch
ProxyImage(r) ==
  /\ req[r].pc = "idle"
  /\ CanServe("proxy/image")
  /\ HasRoom(imageStats)
  /\ \E url \in ImageUrls :
       LET step == ProxyImagePre(url, imageCache, nodeEnv, now)
           looksUp == /\ TruthyStr(url) /\ UrlValid(Val(url))
                      /\ isAllowedDomain(UrlHostname(Val(url)))
       IN /\ req' = [req EXCEPT ![r] =
                       IF step.t = "resp"
                       THEN [pc |-> "done", route |-> "proxy/image", q |-> [url |-> url],
                             calls |-> <<>>, resp |-> step.resp]
                       ELSE [pc |-> "await", route |-> "proxy/image", q |-> [url |-> url],
                             call |-> step,
                             calls |-> <<[endpoint |-> step.url, params |-> <<>>,
                                          result |-> "pending", error |-> Undef,
                                          payload |-> Undef]>>]]
          /\ imageStats' = IF looksUp
                           THEN CountGet(imageStats, imageCache, ImageCacheKey(Val(url)), now)
                           ELSE imageStats
  /\ UNCHANGED <<now, nodeEnv, tz, cache, imageCache, stats, client>>

\* ImageOk caching the image with another default content type than it sends
ImageOkStoresOtherType(r) ==
  /\ req[r].pc = "await"
  /\ req[r].route = "proxy/image"
  /\ \E img \in Images :
       LET rr == req[r]
           contentType == IF IsDef(img.contentType) THEN Val(img.contentType) ELSE "image/jpeg"
           stored == IF IsDef(img.contentType) THEN Val(img.contentType)
                     ELSE "application/octet-stream"
       IN /\ imageCache' = CacheSet(imageCache, rr.call.cacheKey,
                                    [data |-> img.data, contentType |-> stored],
                                    DayTTL, now)
          /\ req' = [req EXCEPT ![r] =
                       [pc |-> "done", route |-> rr.route, q |-> rr.q,
                        calls |-> Closed(rr.calls, "ok", Undef, Some(img)),
                        resp |-> ImageResponse(img.data, contentType, "MISS")]]
  /\ UNCHANGED <<now, nodeEnv, tz, cache, stats, imageStats, client>>

\* the outbound fetch returns the image: it is cached and sent
ImageOk(r) ==
  /\ req[r].pc = "await"
  /\ req[r].route = "proxy/image"
  /\ \E img \in Images :
       LET rr == req[r]
           contentType == IF IsDef(img.contentType) THEN Val(img.contentType) ELSE "image/jpeg"
       IN /\ imageCache' = CacheSet(imageCache, rr.call.cacheKey,
                                    [data |-> img.data, contentType |-> contentType],
                                    DayTTL, now)
          /\ req' = [req EXCEPT ![r] =
                       [pc |-> "done", route |-> rr.route, q |-> rr.q,
                        calls |-> Closed(rr.calls, "ok", Undef, Some(img)),
                        resp |-> ImageResponse(img.data, contentType, "MISS")]]
  /\ UNCHANGED <<now, nodeEnv, tz, cache, stats, imageStats, client>>

\* the outbound fetch fails
ImageFail(r) ==
  /\ req[r].pc = "await"
  /\ req[r].route = "proxy/image"
  /\ \E error \in UpstreamErrors :
       req' = [req EXCEPT ![r] =
                 [pc |-> "done", route |-> req[r].route, q |-> req[r].q,
                  calls |-> Closed(req[r].calls, "failed", Some(error), Undef),
                  resp |-> ProxyCaught(error, nodeEnv)]]
  /\ UNCHANGED <<now, nodeEnv, tz, cache, imageCache, stats, imageStats, client>>

\* the GET routes of the proxy router, in the order of their registration
ProxyGetRoutes == <<"image", "thumbnail", "cache/stats">>
\* router.handle(req, res, next): the first route whose path is the path of
\* req.url
RECURSIVE RouterHandle(_, _)
RouterHandle(path, i) ==
  IF i > Len(ProxyGetRoutes) THEN "none"
  ELSE IF ProxyGetRoutes[i] = path THEN ProxyGetRoutes[i]
  ELSE RouterHandle(path, i + 1)
\* what the engine throws when the call stack is exhausted
StackOverflow == NewError(<<"Maximum", "call", "stack", "size", "exceeded">>)

\* GET /api/proxy/thumbnail: without url it answers 400; with url it sets
\* req.query.url and hands the request to router.handle, with req.url still
\* the path of the thumbnail route, so the handler is entered again and again
\* until the call stack is exhausted: either the RangeError reaches the error
\* handler or it is thrown inside a catch block and no response is sent
ProxyThumbnail(r) ==
  /\ req[r].pc = "idle"
  /\ CanServe("proxy/thumbnail")
  /\ \E url \in ImageUrls :
       IF ~TruthyStr(url)
       THEN req' = [req EXCEPT ![r] =
                      [pc |-> "done", route |-> "proxy/thumbnail", q |-> [url |-> url],
                       calls |-> <<>>,
                       resp |-> Json(400, [success |-> FALSE,
                                           error |-> JStr(<<"Missing URL parameter">>),
                                           message |-> <<"Image URL is required">>])]]
       ELSE /\ RouterHandle("thumbnail", 1) = "thumbnail"
            /\ \/ req' = [req EXCEPT ![r] =
                            [pc |-> "done", route |-> "proxy/thumbnail", q |-> [url |-> url],
                             calls |-> <<>>, resp |-> errorHandler(StackOverflow, nodeEnv)]]
               \/ req' = [req EXCEPT ![r] =
                            [pc |-> "stalled", route |-> "proxy/thumbnail",
                             q |-> [url |-> url], calls |-> <<>>]]
  /\ UNCHANGED <<now, nodeEnv, tz, cache, imageCache, stats, imageStats, client>>

Forbidden ==
  Json(403, [success |-> FALSE, error |-> JStr(<<"Forbidden">>),
             message |-> <<"Cache clearing is not allowed in production">>])

\* a clear that empties the cache and keeps its counters
HealthCacheClearKeepsStats(r) ==
  /\ req[r].pc = "idle"
  /\ CanServe("health/cache/clear")
  /\ nodeEnv # "production"
  /\ cache' = EmptyCache
  /\ req' = [req EXCEPT ![r] =
               [pc |-> "done", route |-> "health/cache/clear", q |-> <<>>,
                calls |-> <<>>,
                resp |-> Json(200, [success |-> TRUE,
                                    message |-> <<"Cache cleared successfully">>])]]
  /\ UNCHANGED <<now, nodeEnv, tz, imageCache, imageStats, stats, client>>

\* POST /api/health/cache/clear
HealthCacheClear(r) ==
  /\ req[r].pc = "idle"
  /\ CanServe("health/cache/clear")
  /\ IF nodeEnv = "production"
     THEN /\ req' = [req EXCEPT ![r] =
                       [pc |-> "done", route |-> "health/cache/clear", q |-> <<>>,
                        calls |-> <<>>, resp |-> Forbidden]]
          /\ UNCHANGED <<cache, stats>>
     ELSE /\ cache' = EmptyCache
          /\ stats' = ZeroStats
          /\ req' = [req EXCEPT ![r] =
                       [pc |-> "done", route |-> "health/cache/clear", q |-> <<>>,
                        calls |-> <<>>,
                        resp |-> Json(200, [success |-> TRUE,
                                            message |-> <<"Cache cleared successfully">>])]]
  /\ UNCHANGED <<now, nodeEnv, tz, imageCache, imageStats, client>>

\* POST /api/proxy/cache/clear
ProxyCacheClear(r) ==
  /\ req[r].pc = "idle"
  /\ CanServe("proxy/cache/clear")
  /\ IF nodeEnv = "production"
     THEN /\ req' = [req EXCEPT ![r] =
                       [pc |-> "done", route |-> "proxy/cache/clear", q |-> <<>>,
                        calls |-> <<>>, resp |-> Forbidden]]
          /\ UNCHANGED <<imageCache, imageStats>>
     ELSE /\ imageCache' = EmptyCache
          /\ imageStats' = ZeroStats
          /\ req' = [req EXCEPT ![r] =
                       [pc |-> "done", route |-> "proxy/cache/clear", q |-> <<>>,
                        calls |-> <<>>,
                        resp |-> Json(200, [success |-> TRUE,
                                            message |-> <<"Image cache cleared successfully">>])]]
  /\ UNCHANGED <<now, nodeEnv, tz, cache, stats, client>>

\* the response has been sent; the slot is free for the next request
Retire(r) ==
  /\ req[r].pc = "done"
  /\ req' = [req EXCEPT ![r] = Idle]
  /\ UNCHANGED <<now, nodeEnv, tz, cache, imageCache, stats, imageStats, client>>

\* the client gives up on a request that is never answered
Abandon(r) ==
  /\ req[r].pc = "stalled"
  /\ req' = [req EXCEPT ![r] = Idle]
  /\ UNCHANGED <<now, nodeEnv, tz, cache, imageCache, stats, imageStats, client>>

\* an hour passes; the caches' periodic checks (every 10 minutes and every
\* hour) have deleted the entries that expired
Tick ==
  /\ now < StartTime + MaxTicks
  /\ now' = now + 1
  /\ cache' = CacheSweep(cache, now + 1)
  /\ imageCache' = CacheSweep(imageCache, now + 1)
  /\ UNCHANGED <<nodeEnv, tz, stats, imageStats, req, client>>

Next ==
  \/ \E r \in Reqs : ApodGet(r)
  \/ \E r \in Reqs : ApodRange(r)
  \/ \E r \in Reqs : MarsPhotos(r)
  \/ \E r \in Reqs : MarsLatest(r)
  \/ \E r \in Reqs : NeoFeed(r)
  \/ \E r \in Reqs : NeoObject(r)
  \/ \E r \in Reqs : EpicLatest(r)
  \/ \E r \in Reqs : Health(r)
  \/ \E r \in Reqs : UpstreamOk(r)
  \/ \E r \in Reqs : UpstreamFail(r)
  \/ \E r \in Reqs : ProxyImage(r)
  \/ \E r \in Reqs : ImageOk(r)
  \/ \E r \in Reqs : ImageFail(r)
  \/ \E r \in Reqs : HealthCacheClear(r)
  \/ \E r \in Reqs : ProxyThumbnail(r)
  \/ \E r \in Reqs : ProxyCacheClear(r)
  \/ \E r \in Reqs : Retire(r)
  \/ \E r \in Reqs : Abandon(r)
  \/ Tick

Spec == Init /\ [][Next]_vars

\* the backend with overlapping requests: two slots, the server in UTC with
\* NODE_ENV not set
InitPair ==
  /\ now = StartTime
  /\ nodeEnv = ""
  /\ tz = 0
  /\ cache = EmptyCache
  /\ imageCache = EmptyCache
  /\ stats = ZeroStats
  /\ imageStats = ZeroStats
  /\ client = NoClient
  /\ req = [r \in Reqs |-> Idle]

\* overlapping requests to the gateway routes
NextPair ==
  \/ \E r \in Reqs : ApodGet(r)
  \/ \E r \in Reqs : ApodRange(r)
  \/ \E r \in Reqs : MarsPhotos(r)
  \/ \E r \in Reqs : MarsLatest(r)
  \/ \E r \in Reqs : NeoFeed(r)
  \/ \E r \in Reqs : NeoObject(r)
  \/ \E r \in Reqs : EpicLatest(r)
  \/ \E r \in Reqs : UpstreamOk(r)
  \/ \E r \in Reqs : UpstreamFail(r)
  \/ \E r \in Reqs : Retire(r)
  \/ Tick

SpecPair == InitPair /\ [][NextPair]_vars

\* the two caches and their clear endpoints, with overlapping requests and
\* within one hour (no entry expires)
NextClear ==
  \/ \E r \in Reqs : ApodGet(r)
  \/ \E r \in Reqs : UpstreamOk(r)
  \/ \E r \in Reqs : UpstreamFail(r)
  \/ \E r \in Reqs : ProxyImage(r)
  \/ \E r \in Reqs : ImageOk(r)
  \/ \E r \in Reqs : ImageFail(r)
  \/ \E r \in Reqs : HealthCacheClear(r)
  \/ \E r \in Reqs : ProxyCacheClear(r)
  \/ \E r \in Reqs : Retire(r)

SpecClear == InitPair /\ [][NextClear]_vars

\* a validator is called directly and returns or throws
Called(fn, args, outcome) ==
  [pc |-> "done", route |-> fn, q |-> args, calls |-> <<>>, resp |-> outcome]
CallValidateDate(r) ==
  /\ req[r].pc = "idle"
  /\ \E d \in DateArgs :
       req' = [req EXCEPT ![r] =
                 Called("validateDate", [dateString |-> d],
                        Ret(validateDate(AsOptStr(d), tz)))]
  /\ UNCHANGED <<now, nodeEnv, tz, cache, imageCache, stats, imageStats, client>>
CallValidateDateRange(r) ==
  /\ req[r].pc = "idle"
  /\ \E a \in DateArgs, b \in DateArgs, m \in MaxDaysArgs :
       req' = [req EXCEPT ![r] =
                 Called("validateDateRange",
                        [startDate |-> a, endDate |-> b, maxDays |-> m],
                        Ret(validateDateRange(AsOptStr(a), AsOptStr(b),
                                              IF IsDef(m) THEN Val(m) ELSE 7, tz)))]
  /\ UNCHANGED <<now, nodeEnv, tz, cache, imageCache, stats, imageStats, client>>
CallValidateCamera(r) ==
  /\ req[r].pc = "idle"
  /\ \E camera \in CameraArgs, rover \in RoverArgs :
       req' = [req EXCEPT ![r] =
                 Called("validateCamera", [camera |-> camera, rover |-> rover],
                        validateCameraCall(camera, rover, VALID_CAMERAS))]
  /\ UNCHANGED <<now, nodeEnv, tz, cache, imageCache, stats, imageStats, client>>
CallValidateQueryParams(r) ==
  /\ req[r].pc = "idle"
  /\ \E params \in DateParams, rules \in DateRules :
       req' = [req EXCEPT ![r] =
                 Called("validateQueryParams", [params |-> params, rules |-> rules],
                        validateQueryParams(params, rules, tz))]
  /\ UNCHANGED <<now, nodeEnv, tz, cache, imageCache, stats, imageStats, client>>

\* the validators called directly, on a server in any of the time zones
InitValidators ==
  /\ now = StartTime
  /\ nodeEnv = ""
  /\ tz \in TZOffsets
  /\ cache = EmptyCache
  /\ imageCache = EmptyCache
  /\ stats = ZeroStats
  /\ imageStats = ZeroStats
  /\ client = NoClient
  /\ req = [r \in Reqs |-> IF r <= MaxReq THEN Idle ELSE Off]

NextValidators ==
  \/ \E r \in Reqs : CallValidateDate(r)
  \/ \E r \in Reqs : CallValidateDateRange(r)
  \/ \E r \in Reqs : CallValidateCamera(r)
  \/ \E r \in Reqs : CallValidateQueryParams(r)
  \/ \E r \in Reqs : Retire(r)

SpecValidators == InitValidators /\ [][NextValidators]_vars

\* the risk assessment of /neows/feed and the analysis of /neows/object, each
\* applied to a payload as the handler applies it after its await
FeedAssessment(r) ==
  /\ req[r].pc = "idle"
  /\ \E f \in FeedArgs :
       req' = [req EXCEPT ![r] =
                 Called("neows/feed assessment", [feed |-> f],
                        NeoFeedPost([start_date |-> Undef, end_date |-> Undef,
                                     detailed |-> Undef],
                                    [startDate |-> IsoDate(now), endDate |-> IsoDate(now),
                                     daysDiff |-> 0],
                                    JObj(f), now).resp)]
  /\ UNCHANGED <<now, nodeEnv, tz, cache, imageCache, stats, imageStats, client>>
ObjectAnalysis(r) ==
  /\ req[r].pc = "idle"
  /\ \E o \in ObjectArgs :
       req' = [req EXCEPT ![r] =
                 Called("neows/object analysis", [object |-> o],
                        NeoObjectPost([id |-> <<"4", "3", "3">>], JObj(o), now).resp)]
  /\ UNCHANGED <<now, nodeEnv, tz, cache, imageCache, stats, imageStats, client>>

NextAnalysis ==
  \/ \E r \in Reqs : FeedAssessment(r)
  \/ \E r \in Reqs : ObjectAnalysis(r)
  \/ \E r \in Reqs : Retire(r)
  \/ Tick

SpecAnalysis == InitValidators /\ [][NextAnalysis]_vars

\* ------------------------------------------------------ proxy cache stats
\* keys.reduce((total, key) => total + (imageCache.get(key)?.data?.length || 0), 0)
RECURSIVE CachedBytes(_, _)
CachedBytes(c, keys) ==
  IF keys = {} THEN 0
  ELSE LET key == CHOOSE k \in keys : TRUE
       IN Len(c[key].v.data) + CachedBytes(c, keys \ {key})
\* Math.round(total / (1024 * 1024) * 100) / 100, in hundredths of a megabyte
SizeMb(total) == (200 * total + 1048576) \div 2097152
\* every imageCache.get of the reduce counts a lookup
RECURSIVE CountGets(_, _, _, _)
CountGets(s, c, keys, t) ==
  IF keys = {} THEN s
  ELSE LET key == CHOOSE k \in keys : TRUE
       IN CountGets(CountGet(s, c, key, t), c, keys \ {key}, t)

\* GET /api/proxy/cache/stats: getStats() hands out the cache's own counters
\* object, so the response, serialised after the reduce, shows the counters as
\* the reduce has left them
ProxyCacheStats(r) ==
  /\ req[r].pc = "idle"
  /\ CanServe("proxy/cache/stats")
  /\ HasRoom(imageStats)
  /\ \E keys \in {DOMAIN imageCache} :
     \E counted \in {CountGets(imageStats, imageCache, keys, now)} :
       /\ imageStats' = counted
       /\ req' = [req EXCEPT ![r] =
                    [pc |-> "done", route |-> "proxy/cache/stats", q |-> <<>>, calls |-> <<>>,
                     resp |-> Json(200, [success |-> TRUE,
                                         data |-> JObj([stats |-> counted,
                                                        cached_images |-> Cardinality(keys),
                                                        cache_size_mb |->
                                                          SizeMb(CachedBytes(imageCache, keys))])])]]
  /\ UNCHANGED <<now, nodeEnv, tz, cache, imageCache, stats, client>>

\* the image proxy and its statistics, one request at a time
NextProxy ==
  \/ \E r \in Reqs : ProxyImage(r)
  \/ \E r \in Reqs : ImageOk(r)
  \/ \E r \in Reqs : ImageFail(r)
  \/ \E r \in Reqs : ProxyCacheStats(r)
  \/ \E r \in Reqs : Retire(r)

SpecProxy == Init /\ [][NextProxy]_vars

\* ------------------------------------------------------------- SmartImage
\* a URL is a string of tokens, '' is <<>>; src and fallbackSrc are a string
\* or null (Undef)
nasaDomains ==
  { <<"apod", ".", "nasa", ".", "gov">>,
    <<"mars", ".", "nasa", ".", "gov">>,
    <<"api", ".", "nasa", ".", "gov">>,
    <<"epic", ".", "gsfc", ".", "nasa", ".", "gov">> }
getProxiedUrl(url, useProxy) ==
  IF url = <<>> \/ ~useProxy THEN url
  ELSE IF Includes(url, <<"/api/proxy/image">>) THEN url
  ELSE IF \E domain \in nasaDomains : Includes(url, domain)
  THEN <<"/api/proxy/image", "?url=", "encodeURIComponent(">> \o url \o <<")">>
  ELSE url
TruthyUrl(o) == IsDef(o) /\ Val(o) # <<>>

\* the component after its first render: the props, the initial values of
\* its state, the URLs the browser can load, and what has been observed since
\* the source was initialised: the sources tried and the calls of onLoad and
\* onError
Mounted(props, loadable) ==
  [kind |-> "SmartImage", src |-> props.src, fallbackSrc |-> props.fallbackSrc,
   useProxy |-> props.useProxy, retryCount |-> props.retryCount, loadable |-> loadable,
   currentSrc |-> <<>>, isLoading |-> TRUE, hasError |-> FALSE, retryAttempts |-> 0,
   fallbackAttempted |-> FALSE, isFinalized |-> FALSE,
   tried |-> <<>>, onLoadCalls |-> 0, onErrorCalls |-> 0]

\* the effect that initialises the image source, run when src changes
InitializeSource(c) ==
  IF TruthyUrl(c.src)
  THEN [c EXCEPT !.currentSrc = getProxiedUrl(Val(c.src), c.useProxy),
                 !.isLoading = TRUE, !.hasError = FALSE, !.retryAttempts = 0,
                 !.fallbackAttempted = FALSE, !.isFinalized = FALSE,
                 !.tried = <<getProxiedUrl(Val(c.src), c.useProxy)>>,
                 !.onLoadCalls = 0, !.onErrorCalls = 0]
  ELSE c

handleLoad(c) ==
  [c EXCEPT !.isLoading = FALSE, !.hasError = FALSE, !.onLoadCalls = @ + 1]

\* handleError accepting one retry more than retryCount
handleErrorOneMore(c) ==
  IF c.isFinalized THEN c
  ELSE IF ~c.fallbackAttempted /\ c.retryAttempts <= c.retryCount /\ TruthyUrl(c.src)
  THEN LET next == IF c.retryAttempts = 0 /\ c.useProxy THEN Val(c.src)
                   ELSE getProxiedUrl(Val(c.src), c.useProxy)
       IN [c EXCEPT !.retryAttempts = @ + 1, !.currentSrc = next, !.isLoading = TRUE,
                    !.tried = Append(@, next)]
  ELSE IF TruthyUrl(c.fallbackSrc) /\ ~c.fallbackAttempted
          /\ c.currentSrc # Val(c.fallbackSrc)
  THEN [c EXCEPT !.currentSrc = Val(c.fallbackSrc), !.fallbackAttempted = TRUE,
                 !.isLoading = TRUE, !.tried = Append(@, Val(c.fallbackSrc))]
  ELSE [c EXCEPT !.isLoading = FALSE, !.hasError = TRUE, !.isFinalized = TRUE,
                 !.onErrorCalls = @ + 1]

handleError(c) ==
  IF c.isFinalized THEN c
  ELSE IF ~c.fallbackAttempted /\ c.retryAttempts < c.retryCount /\ TruthyUrl(c.src)
  THEN LET next == IF c.retryAttempts = 0 /\ c.useProxy THEN Val(c.src)
                   ELSE getProxiedUrl(Val(c.src), c.useProxy)
       IN [c EXCEPT !.retryAttempts = @ + 1, !.currentSrc = next, !.isLoading = TRUE,
                    !.tried = Append(@, next)]
  ELSE IF TruthyUrl(c.fallbackSrc) /\ ~c.fallbackAttempted
          /\ c.currentSrc # Val(c.fallbackSrc)
  THEN [c EXCEPT !.currentSrc = Val(c.fallbackSrc), !.fallbackAttempted = TRUE,
                 !.isLoading = TRUE, !.tried = Append(@, Val(c.fallbackSrc))]
  ELSE [c EXCEPT !.isLoading = FALSE, !.hasError = TRUE, !.isFinalized = TRUE,
                 !.onErrorCalls = @ + 1]

\* what the component renders: the placeholder while it is loading, the
\* error box when it has failed, the <img> element otherwise
ImgRendered(c) == ~(c.isLoading /\ ~c.hasError) /\ ~c.hasError
\* the timeout effect has a timer running
TimerArmed(c) == c.isLoading /\ c.currentSrc # <<>> /\ ~c.isFinalized

\* the props and the browser's view of the URLs
NasaUrl == <<"https://", "apod", ".", "nasa", ".", "gov", "/x.jpg">>
OtherUrl == <<"https://", "example", ".", "com", "/y.png">>
PlaceholderUrl == <<"/space-placeholder.jpg">>
ImageProps ==
  [ src : {Undef, Some(NasaUrl), Some(OtherUrl)},
    fallbackSrc : {Undef, Some(PlaceholderUrl)},
    useProxy : BOOLEAN,
    retryCount : 0..MaxRetryCount ]
LoadableSets == SUBSET {NasaUrl, getProxiedUrl(NasaUrl, TRUE), OtherUrl, PlaceholderUrl}

\* the next event reaches the component: the load or error event of the
\* <img> element when it is rendered, the timeout of the timer otherwise
ImageEvent ==
  /\ client.kind = "SmartImage"
  /\ \/ ImgRendered(client) /\ client.onLoadCalls = 0
     \/ TimerArmed(client)
  /\ client' = IF ImgRendered(client)
               THEN (IF client.currentSrc \in client.loadable THEN handleLoad(client)
                     ELSE handleError(client))
               ELSE handleError(client)
  /\ UNCHANGED <<now, nodeEnv, tz, cache, imageCache, stats, imageStats, req>>

\* the parent renders the component with another src
SrcChange ==
  /\ client.kind = "SmartImage"
  /\ \E src \in {Undef, Some(NasaUrl), Some(OtherUrl)} \ {client.src} :
       client' = InitializeSource([client EXCEPT !.src = src])
  /\ UNCHANGED <<now, nodeEnv, tz, cache, imageCache, stats, imageStats, req>>

\* a SmartImage in a page, after its first render and its effects
InitImage ==
  /\ now = StartTime
  /\ nodeEnv = ""
  /\ tz = 0
  /\ cache = EmptyCache
  /\ imageCache = EmptyCache
  /\ stats = ZeroStats
  /\ imageStats = ZeroStats
  /\ req = [r \in Reqs |-> Off]
  /\ \E props \in ImageProps, loadable \in LoadableSets :
       client = InitializeSource(Mounted(props, loadable))

NextImage ==
  \/ ImageEvent
  \/ SrcChange

SpecImage == InitImage /\ [][NextImage]_vars

\* ------------------------------------------------------------- cache keys
\* the characters of the tokens of more than one character that occur in
\* cache keys; every other token is one character
Spelling ==
  "apod_" :> <<"a", "p", "o", "d", "_">>
  @@ "mars_" :> <<"m", "a", "r", "s", "_">>
  @@ "mars_manifest_" :> <<"m", "a", "r", "s", "_", "m", "a", "n", "i", "f", "e", "s", "t", "_">>
  @@ "neows_" :> <<"n", "e", "o", "w", "s", "_">>
  @@ "neows_object_" :> <<"n", "e", "o", "w", "s", "_", "o", "b", "j", "e", "c", "t", "_">>
  @@ "epic_" :> <<"e", "p", "i", "c", "_">>
  @@ "epic_dates_" :> <<"e", "p", "i", "c", "_", "d", "a", "t", "e", "s", "_">>
  @@ "date" :> <<"d", "a", "t", "e">>
  @@ "count" :> <<"c", "o", "u", "n", "t">>
  @@ "start_date" :> <<"s", "t", "a", "r", "t", "_", "d", "a", "t", "e">>
  @@ "end_date" :> <<"e", "n", "d", "_", "d", "a", "t", "e">>
  @@ "page" :> <<"p", "a", "g", "e">>
  @@ "sol" :> <<"s", "o", "l">>
  @@ "earth_date" :> <<"e", "a", "r", "t", "h", "_", "d", "a", "t", "e">>
  @@ "camera" :> <<"c", "a", "m", "e", "r", "a">>
  @@ "detailed_destruction" :> <<"d", "e", "t", "a", "i", "l", "e", "d", "_", "d", "e", "s", "t", "r", "u", "c", "t", "i", "o", "n">>
  @@ "true" :> <<"t", "r", "u", "e">>
  @@ "false" :> <<"f", "a", "l", "s", "e">>
  @@ "null" :> <<"n", "u", "l", "l">>
  @@ "curiosity" :> <<"c", "u", "r", "i", "o", "s", "i", "t", "y">>
  @@ "spirit" :> <<"s", "p", "i", "r", "i", "t">>
  @@ "FHAZ" :> <<"F", "H", "A", "Z">>
  @@ "natural" :> <<"n", "a", "t", "u", "r", "a", "l">>
  @@ "enhanced" :> <<"e", "n", "h", "a", "n", "c", "e", "d">>
RECURSIVE KeyText(_)
KeyText(key) ==
  IF key = <<>> THEN <<>>
  ELSE (IF Head(key) \in DOMAIN Spelling THEN Spelling[Head(key)] ELSE <<Head(key)>>)
       \o KeyText(Tail(key))

\* the calls the routes make to the service, with their arguments
KeyDates == {JNull, JStr(DateStr(2024, 1, 1)), JStr(DateStr(2024, 1, 10))}
ServiceCalls ==
  { [fn |-> "getAPOD", args |-> <<d, c, s, e>>, call |-> getAPOD(d, c, s, e)] :
      d \in KeyDates, c \in {JNull, JStr(<<"5">>), JStr(<<"5", "0">>)},
      s \in KeyDates, e \in KeyDates }
  \cup { [fn |-> "getMarsRoverPhotos", args |-> <<JStr(<<rv>>), sol, ed, cam, pg>>,
          call |-> getMarsRoverPhotos(rv, sol, ed, cam, pg)] :
           rv \in {"curiosity", "spirit"}, sol \in {JNull, JStr(<<"5">>), JStr(<<"5", "0">>)},
           ed \in {JNull, JStr(DateStr(2024, 1, 1))}, cam \in {JNull, JStr(<<"FHAZ">>)},
           pg \in {JNum(1), JNum(15)} }
  \cup { [fn |-> "getMarsRoverManifest", args |-> <<JStr(<<rv>>)>>, call |-> getMarsRoverManifest(rv)] :
           rv \in {"curiosity", "spirit"} }
  \cup { [fn |-> "getNearEarthObjects", args |-> <<s, e, JBool(det)>>,
          call |-> getNearEarthObjects(s, e, det)] :
           s \in KeyDates, e \in KeyDates, det \in BOOLEAN }
  \cup { [fn |-> "getNearEarthObjectById", args |-> <<JStr(id)>>,
          call |-> getNearEarthObjectById(id)] :
           id \in {<<"3", "5">>, <<"4", "2">>, <<"3", "5", "4", "2">>} }
  \cup { [fn |-> "getEPICImages", args |-> <<d, JStr(<<ty>>)>>, call |-> getEPICImages(d, ty, StartTime)] :
           d \in KeyDates, ty \in VALID_TYPES }
  \cup { [fn |-> "getEPICAvailableDates", args |-> <<JStr(<<ty>>)>>, call |-> getEPICAvailableDates(ty)] :
           ty \in VALID_TYPES }

\* a route calls the service, which hands endpoint, params and cache key to
\* makeRequest
ServiceCall(r) ==
  /\ req[r].pc = "idle"
  /\ \E sc \in ServiceCalls :
       req' = [req EXCEPT ![r] = Called(sc.fn, sc.args, Ret(sc.call))]
  /\ UNCHANGED <<now, nodeEnv, tz, cache, imageCache, stats, imageStats, client>>

NextKeys ==
  \/ \E r \in Reqs : ServiceCall(r)
  \/ \E r \in Reqs : Retire(r)

SpecKeys == InitPair /\ [][NextKeys]_vars

\* -------------------------------------------------------------- withRetry
\* what apiCall may return and throw
ApiValues == {JObj([title |-> "A"]), JNull}
ApiErrors == {AxiosTimeout, AxiosHttpError(500), AxiosNetworkError("ECONNRESET")}

\* the for loop at its test i < maxRetries: the body awaits apiCall(); when
\* the loop ends the function returns undefined; attempts is what the calls
\* of apiCall have answered so far
LoopTest(c) ==
  IF c.i < c.maxRetries THEN [c EXCEPT !.pc = "calling"]
  ELSE [c EXCEPT !.pc = "resolved", !.value = JUndefined]
withRetry(maxRetries, delay) ==
  LoopTest([kind |-> "withRetry", maxRetries |-> maxRetries, delay |-> delay, i |-> 0,
            pc |-> "start", value |-> JUndefined, error |-> Undef, sleep |-> 0,
            attempts |-> <<>>])

\* return await apiCall()
ApiCallReturns ==
  /\ client.kind = "withRetry" /\ client.pc = "calling"
  /\ \E v \in ApiValues :
       client' = [client EXCEPT !.pc = "resolved", !.value = v,
                                !.attempts = Append(@, Ret(v))]
  /\ UNCHANGED <<now, nodeEnv, tz, cache, imageCache, stats, imageStats, req>>
\* the catch block: rethrow on the last round, otherwise wait delay * (i + 1)
ApiCallThrows ==
  /\ client.kind = "withRetry" /\ client.pc = "calling"
  /\ \E e \in ApiErrors :
       client' = IF client.i = client.maxRetries - 1
                 THEN [client EXCEPT !.pc = "rejected", !.error = Some(e),
                                     !.attempts = Append(@, Threw(e))]
                 ELSE [client EXCEPT !.pc = "waiting",
                                     !.sleep = client.delay * (client.i + 1),
                                     !.attempts = Append(@, Threw(e))]
  /\ UNCHANGED <<now, nodeEnv, tz, cache, imageCache, stats, imageStats, req>>
\* the timer of the wait fires: i++ and the loop test
DelayElapsed ==
  /\ client.kind = "withRetry" /\ client.pc = "waiting"
  /\ client' = LoopTest([client EXCEPT !.i = @ + 1, !.sleep = 0])
  /\ UNCHANGED <<now, nodeEnv, tz, cache, imageCache, stats, imageStats, req>>

\* withRetry has been called
InitRetry ==
  /\ now = StartTime
  /\ nodeEnv = ""
  /\ tz = 0
  /\ cache = EmptyCache
  /\ imageCache = EmptyCache
  /\ stats = ZeroStats
  /\ imageStats = ZeroStats
  /\ req = [r \in Reqs |-> Off]
  /\ \E maxRetries \in -1..MaxRetries, delay \in {1000, 2000} :
       client = withRetry(maxRetries, delay)

NextRetry ==
  \/ ApiCallReturns
  \/ ApiCallThrows
  \/ DelayElapsed

SpecRetry == InitRetry /\ [][NextRetry]_vars

\* ================================================================== claims
Done(r) == req[r].pc = "done"
Busy(r) == req[r].pc \notin {"idle", "off"}
\* the routes of the API gateway (the resource families)
GatewayRoutes ==
  {"apod", "apod/range", "mars/photos", "mars/latest", "neows/feed", "neows/object",
   "epic/latest"}
LastCall(r) == req[r].calls[Len(req[r].calls)]
HasParam(params, k, v) == \E i \in 1..Len(params) : params[i].k = k /\ params[i].v = v

\* a string that has the form YYYY-MM-DD and names a day of the calendar
LeapYear(y) == (y % 4 = 0 /\ y % 100 # 0) \/ y % 400 = 0
DaysInMonth(y, m) ==
  IF m = 2 THEN (IF LeapYear(y) THEN 29 ELSE 28)
  ELSE IF m \in {4, 6, 9, 11} THEN 30 ELSE 31
RealDate(s) ==
  /\ DateRegex(s)
  /\ DecVal(s, 6, 7) \in 1..12
  /\ DecVal(s, 9, 10) \in 1..DaysInMonth(DecVal(s, 1, 4), DecVal(s, 6, 7))
\* the number of days from a through b, both counted
InclusiveDays(a, b) ==
  DaysFromCivil(DecVal(b, 1, 4), DecVal(b, 6, 7), DecVal(b, 9, 10))
  - DaysFromCivil(DecVal(a, 1, 4), DecVal(a, 6, 7), DecVal(a, 9, 10)) + 1

\* every supplied parameter of the request passes its Validator rule
ParamsPass(route, q) ==
  CASE route = "apod" ->
         /\ IsDef(q.date) => RealDate(Val(q.date))
         /\ IsDef(q.count) => validateCount(Val(q.count), 1, 100)
         /\ IsDef(q.start_date) => RealDate(Val(q.start_date))
         /\ IsDef(q.end_date) => RealDate(Val(q.end_date))
    [] route = "apod/range" ->
         /\ IsDef(q.start_date) => RealDate(Val(q.start_date))
         /\ IsDef(q.end_date) => RealDate(Val(q.end_date))
    [] route = "mars/photos" ->
         /\ IsDef(q.sol) => validateSol(Val(q.sol))
         /\ IsDef(q.earth_date) => RealDate(Val(q.earth_date))
         /\ IsDef(q.camera) => validateCamera(q.camera, q.rover, VALID_CAMERAS)
         /\ IsDef(q.page) => validatePage(Val(q.page))
    [] route = "mars/latest" ->
         IsDef(q.camera) => validateCamera(q.camera, q.rover, VALID_CAMERAS)
    [] route = "neows/feed" ->
         /\ IsDef(q.start_date) => RealDate(Val(q.start_date))
         /\ IsDef(q.end_date) => RealDate(Val(q.end_date))
    [] route = "neows/object" -> validateAsteroidId(Some(q.id))
    [] route = "epic/latest" -> TRUE

\* C1: a gateway request reaches the upstream only if every supplied
\* parameter passes its Validator rule; a request with a parameter that
\* fails its rule is answered 400 and makes no upstream call.
C1_ValidatedBeforeUpstream ==
  \A r \in Reqs :
    (Busy(r) /\ req[r].route \in GatewayRoutes /\ ~ParamsPass(req[r].route, req[r].q))
    => /\ req[r].calls = <<>>
       /\ Done(r) /\ req[r].resp.status = 400

\* C2: GET /neows/feed rejects, with a 400 and no upstream call, every
\* request whose inclusive day count exceeds 7, and GET /apod/range every
\* request whose inclusive day count exceeds 100.
C2_InclusiveWindow ==
  \A r \in Reqs :
    (/\ Busy(r) /\ req[r].route \in {"neows/feed", "apod/range"}
     /\ IsDef(req[r].q.start_date) /\ IsDef(req[r].q.end_date)
     /\ RealDate(Val(req[r].q.start_date)) /\ RealDate(Val(req[r].q.end_date))
     /\ InclusiveDays(Val(req[r].q.start_date), Val(req[r].q.end_date))
          > (IF req[r].route = "neows/feed" THEN 7 ELSE 100))
    => /\ req[r].calls = <<>>
       /\ Done(r) /\ req[r].resp.status = 400

\* C3: GET /proxy/image fetches or serves a cached image only when the host
\* name is one of the allow-listed domains or ends with one of them; every
\* other host name is answered 403 before any network call.
SuffixAllowed(hostname) == \E domain \in allowedDomains : EndsWith(hostname, domain)
C3_AllowListBySuffix ==
  \A r \in Reqs :
    (/\ Busy(r) /\ req[r].route = "proxy/image"
     /\ TruthyStr(req[r].q.url) /\ UrlValid(Val(req[r].q.url))
     /\ ~SuffixAllowed(UrlHostname(Val(req[r].q.url))))
    => /\ req[r].calls = <<>>
       /\ Done(r) /\ req[r].resp.status = 403

\* C4: a makeRequest whose key holds an unexpired entry returns the cached
\* payload without an upstream call, whatever JSON value the payload is; a
\* makeRequest whose key holds no unexpired entry issues an upstream call.
ServiceRoutes == GatewayRoutes \cup {"health"}
C4_CachedPayloadServed ==
  [][\A r \in Reqs :
       (req[r].pc = "idle" /\ req'[r].pc # "idle" /\ req'[r].route \in ServiceRoutes)
       => LET step == Pre(req'[r].route, req'[r].q, tz, now)
              cached == CacheGet(cache, step.args.cacheKey, now)
              firstCall == req'[r].pc = "await" /\ req'[r].call.n = 1
          IN step.t = "call"
             => /\ IsDef(cached) => ~firstCall
                /\ (IsDef(cached) /\ req'[r].route = "apod")
                     => (req'[r].pc = "done" /\ req'[r].resp.body.data = Val(cached))
                /\ ~IsDef(cached) => firstCall]_vars

\* C5: every JSON response is a success envelope (success, data, no error)
\* or a failure envelope (no data, error an object whose code is one of the
\* documented codes).
ErrorCodes ==
  {"INVALID_REQUEST", "NASA_API_ERROR", "RATE_LIMIT_EXCEEDED", "INTERNAL_ERROR",
   "NOT_FOUND", "CACHE_ERROR"}
SuccessEnvelope(b) == b.success /\ "data" \in DOMAIN b /\ "error" \notin DOMAIN b
FailureEnvelope(b) ==
  /\ ~b.success /\ "data" \notin DOMAIN b /\ "error" \in DOMAIN b
  /\ "obj" \in DOMAIN b.error
  /\ b.error.obj.code \in ErrorCodes
C5_Envelope ==
  \A r \in Reqs :
    (Done(r) /\ req[r].resp.kind = "json")
    => SuccessEnvelope(req[r].resp.body) \/ FailureEnvelope(req[r].resp.body)

\* the HTTP status the upstream answered the request's last call with, 0 when
\* that call did not fail or failed without an answer
UpstreamStatus(r) ==
  IF req[r].calls # <<>> /\ IsDef(LastCall(r).error)
  THEN ResponseStatus(Val(LastCall(r).error)) ELSE 0
UpstreamCode(r) ==
  IF req[r].calls # <<>> /\ IsDef(LastCall(r).error)
  THEN Val(LastCall(r).error).code ELSE ""

\* C6: when the upstream answers a call of a gateway route with 429, 403 or
\* a status of 500 or above, the gateway answers its own caller with 429,
\* 403 and 503 respectively, and success false.
C6_UpstreamStatusMapped ==
  \A r \in Reqs :
    (Done(r) /\ req[r].route \in GatewayRoutes)
    => /\ UpstreamStatus(r) = 429 => req[r].resp.status = 429
       /\ UpstreamStatus(r) = 403 => req[r].resp.status = 403
       /\ UpstreamStatus(r) >= 500 => req[r].resp.status = 503
       /\ UpstreamStatus(r) \in {429, 403} \/ UpstreamStatus(r) >= 500
            => ~req[r].resp.body.success
\* a gateway request whose upstream call was answered 500 has been answered 503
C6_Witness ==
  \E r \in Reqs :
    /\ Done(r) /\ req[r].route \in GatewayRoutes
    /\ UpstreamStatus(r) = 500 /\ req[r].resp.status = 503

\* C7: when a call made through makeRequest times out the gateway answers
\* 408; when it fails by a network error (host not found, connection
\* refused) the gateway answers 503.
C7_TimeoutAndNetworkMapped ==
  \A r \in Reqs :
    (Done(r) /\ req[r].route \in GatewayRoutes)
    => /\ UpstreamCode(r) = "ECONNABORTED" => req[r].resp.status = 408
       /\ UpstreamCode(r) \in {"ENOTFOUND", "ECONNREFUSED"} => req[r].resp.status = 503

\* C8: GET /mars/:rover/latest issues the photos request only after the
\* manifest request has returned successfully, and for every max_sol m of the
\* manifest the photos request carries sol = m and meta.latest_sol is m.
IsPhotosCall(c) == Len(c.endpoint) = 3 /\ c.endpoint[3] = "/photos"
LatestSolOf(r) ==
  IF req[r].pc = "await" THEN req[r].call.ctx.latestSol
  ELSE req[r].resp.body.meta.latest_sol
C8_LatestUsesMaxSol ==
  \A r \in Reqs :
    (Busy(r) /\ req[r].route = "mars/latest")
    => \A i \in 1..Len(req[r].calls) :
         IsPhotosCall(req[r].calls[i])
         => /\ i > 1 => req[r].calls[i - 1].result = "ok"
            /\ HasParam(req[r].calls[i].params, "sol", JNum(LatestSolOf(r)))

\* C9: whenever GET /health reports nasa_api operational, a call to the
\* upstream was issued and succeeded during that health request.
C9_HealthProbeIsLive ==
  \A r \in Reqs :
    (/\ Done(r) /\ req[r].route = "health"
     /\ req[r].resp.body.data.obj.services.nasa_api = "operational")
    => req[r].calls # <<>> /\ LastCall(r).result = "ok"

\* C10: the cache-clear endpoints empty their cache only when NODE_ENV is
\* development; for every other value, unset included, they answer 403 and
\* leave the cache unchanged.
C10_ClearOnlyInDevelopment ==
  [][\A r \in Reqs :
       (/\ req[r].pc = "idle" /\ req'[r].pc = "done"
        /\ req'[r].route \in {"health/cache/clear", "proxy/cache/clear"}
        /\ nodeEnv # "development")
       => /\ req'[r].resp.status = 403
          /\ cache' = cache /\ imageCache' = imageCache]_vars

\* C11: a successful fetch of GET /proxy/image answers X-Cache: MISS and
\* stores (bytes, content-type) under the url's key; the entry stays as
\* stored until it expires, the cache is cleared or a later MISS for the same
\* url stores again; a request for a url whose entry is live answers X-Cache:
\* HIT with the stored bytes and content-type and makes no outbound fetch.
ImageMissBy(r) ==
  /\ req[r].pc = "await" /\ req[r].route = "proxy/image"
  /\ req'[r].pc = "done" /\ req'[r].resp.kind = "image"
ImageCacheCleared ==
  \E r \in Reqs :
    /\ req[r].pc = "idle" /\ req'[r].pc = "done"
    /\ req'[r].route = "proxy/cache/clear" /\ req'[r].resp.status = 200
C11_MissThenHit ==
  [][/\ \A r \in Reqs :
          ImageMissBy(r)
          => LET key == ImageCacheKey(Val(req[r].q.url))
             IN /\ req'[r].resp.headers.XCache = "MISS"
                /\ key \in DOMAIN imageCache'
                /\ imageCache'[key].v = [data |-> req'[r].resp.data,
                                         contentType |-> req'[r].resp.headers.ContentType]
     /\ \A key \in DOMAIN imageCache :
          (/\ ~(imageCache[key].t < now') /\ ~ImageCacheCleared
           /\ ~\E r \in Reqs : ImageMissBy(r) /\ ImageCacheKey(Val(req[r].q.url)) = key)
          => key \in DOMAIN imageCache' /\ imageCache'[key] = imageCache[key]
     /\ \A r \in Reqs :
          (/\ req[r].pc = "idle" /\ req'[r].pc # "idle" /\ req'[r].route = "proxy/image"
           /\ TruthyStr(req'[r].q.url) /\ UrlValid(Val(req'[r].q.url))
           /\ isAllowedDomain(UrlHostname(Val(req'[r].q.url)))
           /\ IsDef(CacheGet(imageCache, ImageCacheKey(Val(req'[r].q.url)), now)))
          => LET cached == Val(CacheGet(imageCache, ImageCacheKey(Val(req'[r].q.url)), now))
             IN /\ req'[r].pc = "done" /\ req'[r].calls = <<>>
                /\ req'[r].resp.kind = "image"
                /\ req'[r].resp.headers.XCache = "HIT"
                /\ req'[r].resp.data = cached.data
                /\ req'[r].resp.headers.ContentType = cached.contentType]_vars
\* a request has been answered from the image cache, after an hour, with the
\* bytes the cache holds for its url
C11_Witness ==
  \E r \in Reqs :
    /\ Done(r) /\ req[r].route = "proxy/image" /\ req[r].calls = <<>>
    /\ req[r].resp.kind = "image" /\ req[r].resp.headers.XCache = "HIT"
    /\ now > StartTime
    /\ req[r].resp.data = imageCache[ImageCacheKey(Val(req[r].q.url))].v.data

\* the proxy request r has been answered after its outbound fetch failed
ProxyFetchFailed(r) ==
  /\ Done(r) /\ req[r].route = "proxy/image"
  /\ req[r].calls # <<>> /\ LastCall(r).result = "failed"

\* C12 as stated: when the outbound fetch of GET /proxy/image fails the proxy
\* answers 408 for a timeout, 404 for an upstream 404 and 500 for every other
\* failure, every other upstream HTTP status included.
C12_ProxyOtherFailuresAre500 ==
  \A r \in Reqs :
    ProxyFetchFailed(r)
    => req[r].resp.status =
         IF UpstreamCode(r) = "ECONNABORTED" THEN 408
         ELSE IF UpstreamStatus(r) = 404 THEN 404
         ELSE 500

\* C12 as amended: 408 for a timeout, 404 for an upstream 404, the upstream's
\* own status for every other upstream HTTP status, 503 for a network error
\* (host not found, connection refused) and 500 for every other failure;
\* the body is a failure body in each case.
C12_ProxyErrorMapped ==
  \A r \in Reqs :
    ProxyFetchFailed(r)
    => /\ req[r].resp.kind = "json" /\ ~req[r].resp.body.success
       /\ req[r].resp.status =
            IF UpstreamCode(r) = "ECONNABORTED" THEN 408
            ELSE IF UpstreamStatus(r) # 0 THEN UpstreamStatus(r)
            ELSE IF UpstreamCode(r) \in {"ENOTFOUND", "ECONNREFUSED"} THEN 503
            ELSE 500
\* a proxy request whose fetch was answered 429 by the upstream has been
\* answered 429
C12_Witness ==
  \E r \in Reqs :
    ProxyFetchFailed(r) /\ UpstreamStatus(r) = 429 /\ req[r].resp.status = 429

\* C13: no upstream call is re-issued: a request makes at most one upstream
\* call per resource it fetches (at most one on the ordinary routes and the
\* image proxy, at most two, for different resources, on /mars/:rover/latest
\* and /epic/latest), and a failed upstream call is the request's last call
\* and ends it with a failure response (on /health, with nasa_api degraded).
MaxCalls(route) == IF route \in {"mars/latest", "epic/latest"} THEN 2 ELSE 1
C13_NoRetry ==
  \A r \in Reqs :
    (Busy(r) /\ req[r].route \in GatewayRoutes \cup {"proxy/image", "health"})
    => /\ Len(req[r].calls) <= MaxCalls(req[r].route)
       /\ \A i, j \in 1..Len(req[r].calls) :
            i # j => req[r].calls[i].endpoint # req[r].calls[j].endpoint
       /\ \A i \in 1..Len(req[r].calls) :
            req[r].calls[i].result = "failed"
            => /\ i = Len(req[r].calls) /\ Done(r)
               /\ IF req[r].route = "health"
                  THEN req[r].resp.body.data.obj.services.nasa_api = "degraded"
                  ELSE /\ req[r].resp.kind = "json" /\ ~req[r].resp.body.success
                       /\ req[r].resp.status >= 400
\* a two-call request whose second call failed has been answered with a failure
C13_Witness ==
  \E r \in Reqs :
    /\ Done(r) /\ req[r].route \in {"mars/latest", "epic/latest"}
    /\ Len(req[r].calls) = 2 /\ req[r].calls[1].result = "ok"
    /\ req[r].calls[2].result = "failed" /\ ~req[r].resp.body.success

\* C14: when a gateway request has fetched, stored and been answered 200,
\* and a second request for the same endpoint with the same parameters is
\* made while the entry the first one stored is live, within the shortest
\* TTL, a second request that is answered without an upstream call is
\* answered with the same data payload as the first.
FirstKey(route, q) == Pre(route, q, tz, now).args.cacheKey
C14_SamePayloadWithinTTL ==
  [][\A r1, r2 \in Reqs :
       (/\ r1 # r2
        /\ Done(r1) /\ req[r1].route \in GatewayRoutes /\ req[r1].resp.status = 200
        /\ req[r1].calls # <<>>
        /\ now <= req[r1].resp.body.meta.timestamp + DefaultTTL
        /\ CacheGet(cache, FirstKey(req[r1].route, req[r1].q), now) = req[r1].calls[1].payload
        /\ req[r2].pc = "idle" /\ req'[r2].pc # "idle"
        /\ req'[r2].route = req[r1].route /\ req'[r2].q = req[r1].q)
       => (req'[r2].pc = "done" => req'[r2].resp.body.data = req[r1].resp.body.data)]_vars

\* the awaited call of request r returns a payload in this step
ReturnsOk(r) ==
  /\ req[r].pc = "await" /\ req[r].route \in GatewayRoutes
  /\ req'[r].calls[Len(req[r].calls)].result = "ok"
\* C15: a request for a key that is not cached issues its own upstream call
\* also while another request is awaiting a call for the same key; when a call
\* returns, its request goes on with the payload of that call and the cache
\* holds that payload under the key, so that after overlapping requests the
\* entry is the one written by the call that returned last; an entry changes
\* only when a call for its key returns or when it expires.
C15_OverlappingMisses ==
  [][/\ \A r1, r2 \in Reqs :
          (/\ r1 # r2 /\ req[r1].pc = "await" /\ req[r1].route \in GatewayRoutes
           /\ req[r2].pc = "idle" /\ req'[r2].pc # "idle"
           /\ req'[r2].route \in GatewayRoutes
           /\ Pre(req'[r2].route, req'[r2].q, tz, now).t = "call"
           /\ FirstKey(req'[r2].route, req'[r2].q) = req[r1].call.args.cacheKey
           /\ ~IsDef(CacheGet(cache, req[r1].call.args.cacheKey, now)))
          => /\ req'[r2].pc = "await"
             /\ req'[r2].call.args.cacheKey = req[r1].call.args.cacheKey
             /\ req'[r1] = req[r1]
     /\ \A r \in Reqs :
          ReturnsOk(r)
          => LET payload == Val(req'[r].calls[Len(req[r].calls)].payload)
                 key == req[r].call.args.cacheKey
             IN /\ key \in DOMAIN cache' /\ cache'[key].v = payload
                /\ req[r].route = "apod" => req'[r].resp.body.data = payload
     /\ \A key \in DOMAIN cache :
          (/\ ~(cache[key].t < now')
           /\ ~\E r \in Reqs : ReturnsOk(r) /\ req[r].call.args.cacheKey = key)
          => key \in DOMAIN cache' /\ cache'[key] = cache[key]]_vars
\* two requests for the same key have both fetched, each has been answered
\* with its own payload, the payloads differ and the cache holds one of them
C15_Witness ==
  \E r1, r2 \in Reqs :
    /\ r1 # r2 /\ Done(r1) /\ Done(r2)
    /\ req[r1].route = "apod" /\ req[r2].route = "apod" /\ req[r1].q = req[r2].q
    /\ req[r1].calls # <<>> /\ req[r2].calls # <<>>
    /\ LastCall(r1).result = "ok" /\ LastCall(r2).result = "ok"
    /\ req[r1].resp.body.data = Val(LastCall(r1).payload)
    /\ req[r2].resp.body.data = Val(LastCall(r2).payload)
    /\ Truthy(req[r1].resp.body.data) /\ Truthy(req[r2].resp.body.data)
    /\ req[r1].resp.body.data # req[r2].resp.body.data
    /\ cache[FirstKey("apod", req[r1].q)].v = req[r2].resp.body.data

\* a request to a clear endpoint is answered with success in this step
ClearedBy(r, route) ==
  /\ req[r].pc = "idle" /\ req'[r].pc = "done"
  /\ req'[r].route = route /\ req'[r].resp.status = 200
\* C16 as stated: a clear removes every entry of its cache (the key count is
\* 0) and leaves the cache's cumulative hit and miss counters at the values
\* they had before the clear.
C16_ClearKeepsCounters ==
  [][\A r \in Reqs :
       /\ ClearedBy(r, "health/cache/clear")
            => (Cardinality(DOMAIN cache') = 0 /\ stats' = stats)
       /\ ClearedBy(r, "proxy/cache/clear")
            => (Cardinality(DOMAIN imageCache') = 0 /\ imageStats' = imageStats)]_vars
\* C16 amended: a clear removes every entry of its cache (the key count is 0)
\* and sets the cache's hit and miss counters back to 0; the other cache and
\* its counters are left as they were.
C16_ClearResetsCounters ==
  [][\A r \in Reqs :
       /\ ClearedBy(r, "health/cache/clear")
            => /\ Cardinality(DOMAIN cache') = 0 /\ stats' = ZeroStats
               /\ imageCache' = imageCache /\ imageStats' = imageStats
       /\ ClearedBy(r, "proxy/cache/clear")
            => /\ Cardinality(DOMAIN imageCache') = 0 /\ imageStats' = ZeroStats
               /\ cache' = cache /\ stats' = stats]_vars
\* a request fetched and stored a picture (one miss was counted) and a clear
\* that was answered after it left no entry and no count
C16_Witness ==
  \E r1, r2 \in Reqs :
    /\ r1 # r2 /\ Done(r1) /\ Done(r2)
    /\ req[r1].route = "apod" /\ req[r1].calls # <<>> /\ LastCall(r1).result = "ok"
    /\ Truthy(req[r1].resp.body.data)
    /\ req[r2].route = "health/cache/clear" /\ req[r2].resp.status = 200
    /\ cache = EmptyCache /\ stats = ZeroStats

\* C17: a GET /proxy/thumbnail request with a url goes on as a GET
\* /proxy/image request with that url does in the same state: it is answered
\* with the response /proxy/image gives without a fetch, or it awaits the
\* outbound fetch that /proxy/image makes.
C17_ThumbnailSameAsImage ==
  [][\A r \in Reqs :
       (/\ req[r].pc = "idle" /\ req'[r].pc # "idle"
        /\ req'[r].route = "proxy/thumbnail" /\ TruthyStr(req'[r].q.url))
       => LET step == ProxyImagePre(req'[r].q.url, imageCache, nodeEnv, now)
          IN IF step.t = "resp"
             THEN req'[r].pc = "done" /\ req'[r].resp = step.resp
             ELSE req'[r].pc = "await" /\ req'[r].call = step]_vars

\* both arguments are real calendar dates, start is not after end, and the
\* days from start through end are at most maxDays (7 when it is not given)
WithinMaxDays(startDate, endDate, maxDays) ==
  /\ IsString(startDate) /\ RealDate(startDate.str)
  /\ IsString(endDate) /\ RealDate(endDate.str)
  /\ InclusiveDays(startDate.str, endDate.str)
       \in 1..(IF IsDef(maxDays) THEN Val(maxDays) ELSE 7)
\* C18: validateDateRange(start, end, maxDays) answers isValid true with
\* days the inclusive day count exactly when both dates are real calendar
\* dates, start is not after end and the inclusive count is at most maxDays;
\* otherwise it answers isValid false.
C18_RangeWithinMaxDays ==
  \A r \in Reqs :
    (Done(r) /\ req[r].route = "validateDateRange")
    => /\ WithinMaxDays(req[r].q.startDate, req[r].q.endDate, req[r].q.maxDays)
            => /\ req[r].resp.ret.isValid
               /\ req[r].resp.ret.days
                    = InclusiveDays(req[r].q.startDate.str, req[r].q.endDate.str)
       /\ ~WithinMaxDays(req[r].q.startDate, req[r].q.endDate, req[r].q.maxDays)
            => ~req[r].resp.ret.isValid

\* C19: validateDate(s) is true exactly when s is a string of the form
\* YYYY-MM-DD that names a real calendar date, whatever the time zone of the
\* server.
C19_DateValidInEveryZone ==
  \A r \in Reqs :
    (Done(r) /\ req[r].route = "validateDate")
    => LET s == req[r].q.dateString
       IN req[r].resp = Ret(IsString(s) /\ RealDate(s.str))

\* C20: no call of a validator throws, whatever its arguments are.
C20_ValidatorsNeverThrow ==
  \A r \in Reqs :
    (Done(r) /\ req[r].route \in {"validateDate", "validateDateRange", "validateCamera",
                                  "validateQueryParams"})
    => "threw" \notin DOMAIN req[r].resp

\* the objects of a feed in scan order, and its approaches as pairs of the
\* place of the object and the place of the approach within it
ScanOrder(feed) == Flat(feed.near_earth_objects)
ApproachPlaces(objs) ==
  {p \in (1..Len(objs)) \X (1..MaxApproaches) : p[2] <= Len(objs[p[1]].close_approach_data)}
ScannedBefore(p, q) == p[1] < q[1] \/ (p[1] = q[1] /\ p[2] < q[2])
MissDistance(objs, p) == objs[p[1]].close_approach_data[p[2]].miss_distance
\* C21: the risk summary of a NEO feed counts the objects flagged hazardous,
\* names as largest the first object in scan order with the maximum diameter
\* and as closest the first approach in scan order with the minimum miss
\* distance; each is null only when there is no object or no approach.
C21_RiskSummary ==
  \A r \in Reqs :
    (Done(r) /\ req[r].route = "neows/feed assessment")
    => LET objs == ScanOrder(req[r].q.feed)
           rs == req[r].resp.body.data.obj.risk_summary
           places == ApproachPlaces(objs)
       IN /\ rs.potentially_hazardous
               = Cardinality({i \in 1..Len(objs) :
                                objs[i].is_potentially_hazardous_asteroid})
          /\ IF objs = <<>> THEN rs.largest_object = Undef
             ELSE \E i \in 1..Len(objs) :
                    /\ \A j \in 1..Len(objs) :
                         /\ objs[j].estimated_diameter_max <= objs[i].estimated_diameter_max
                         /\ j < i => objs[j].estimated_diameter_max
                                       < objs[i].estimated_diameter_max
                    /\ rs.largest_object
                         = Some([name |-> objs[i].name,
                                 diameter |-> objs[i].estimated_diameter_max,
                                 is_hazardous |->
                                   objs[i].is_potentially_hazardous_asteroid])
          /\ IF places = {} THEN rs.closest_approach = Undef
             ELSE \E p \in places :
                    /\ \A q \in places :
                         /\ MissDistance(objs, p) <= MissDistance(objs, q)
                         /\ ScannedBefore(q, p)
                              => MissDistance(objs, p) < MissDistance(objs, q)
                    /\ rs.closest_approach
                         = Some([object_name |-> objs[p[1]].name,
                                 distance |-> MissDistance(objs, p),
                                 date |-> objs[p[1]].close_approach_data[p[2]]
                                            .close_approach_date,
                                 velocity |-> objs[p[1]].close_approach_data[p[2]]
                                                .relative_velocity])
\* a feed of three objects, the first two of the maximum diameter and two
\* approaches at the minimum distance, has been assessed
C21_Witness ==
  \E r \in Reqs :
    /\ Done(r) /\ req[r].route = "neows/feed assessment"
    /\ LET objs == ScanOrder(req[r].q.feed)
           rs == req[r].resp.body.data.obj.risk_summary
       IN /\ Len(objs) = 3
          /\ objs[1].estimated_diameter_max = 2 /\ objs[2].estimated_diameter_max = 2
          /\ Val(rs.largest_object).name = "A"
          /\ rs.potentially_hazardous = 2
          /\ Len(objs[1].close_approach_data) = 0
          /\ Len(objs[2].close_approach_data) = 2
          /\ MissDistance(objs, <<2, 1>>) = 2 /\ MissDistance(objs, <<2, 2>>) = 1
          /\ Val(rs.closest_approach).object_name = "B"
          /\ Val(rs.closest_approach).date = DateStr(2024, 1, 12)

\* the approaches of an object payload dated strictly after t
DatedAfter(approaches, t) ==
  {i \in 1..Len(approaches) :
     /\ ~IsNaN(NewDate(approaches[i].close_approach_date))
     /\ Val(NewDate(approaches[i].close_approach_date)) > t}
\* C22: next_approach of the analysis of /neows/object is an approach of the
\* payload dated strictly after now with no other such approach dated before
\* it, and is null when no approach is dated strictly after now.
C22_NextApproach ==
  \A r \in Reqs :
    (Done(r) /\ req[r].route = "neows/object analysis")
    => LET aps == req[r].q.object.close_approach_data
           t == req[r].resp.body.meta.timestamp
           next == req[r].resp.body.data.obj.analysis.next_approach
           fut == DatedAfter(aps, t)
       IN IF fut = {} THEN next = Undef
          ELSE \E i \in fut :
                 /\ \A j \in fut : Val(NewDate(aps[i].close_approach_date))
                                     <= Val(NewDate(aps[j].close_approach_date))
                 /\ next = Some([date |-> aps[i].close_approach_date,
                                 distance_km |-> aps[i].miss_distance,
                                 velocity_kmh |-> aps[i].relative_velocity])
\* an object whose approaches are dated 12 January, today and 11 January has
\* been analysed an hour before midnight: the next approach is the third
C22_Witness ==
  \E r \in Reqs :
    /\ Done(r) /\ req[r].route = "neows/object analysis"
    /\ req[r].resp.body.meta.timestamp = StartTime
    /\ LET aps == req[r].q.object.close_approach_data
       IN /\ Len(aps) = 3
          /\ aps[1].close_approach_date = DateStr(2024, 1, 12)
          /\ aps[2].close_approach_date = DateStr(2024, 1, 10)
          /\ aps[3].close_approach_date = DateStr(2024, 1, 11)
    /\ Val(req[r].resp.body.data.obj.analysis.next_approach).distance_km = 300

\* the requests for EPIC images among the upstream calls of a request
IsImagesCall(call) == Len(call.endpoint) > 3 /\ call.endpoint[3] = "/date/"
ImagesCalls(calls) == {i \in 1..Len(calls) : IsImagesCall(calls[i])}
\* the available-dates list the handler of slot r receives in this step: from
\* the cache when the request arrives, or from the upstream
DatesReceived(r) ==
  IF req[r].pc = "idle"
  THEN LET key == getEPICAvailableDates(EpicType(req'[r].q)).cacheKey
           got == CacheGet(cache, key, now)
       IN IF IsDef(got) /\ Truthy(Val(got)) THEN got ELSE Undef
  ELSE IF req[r].pc = "await" /\ req[r].call.n = 1
          /\ req'[r].calls[Len(req[r].calls)].result = "ok"
  THEN req'[r].calls[Len(req[r].calls)].payload
  ELSE Undef
\* C23: when /epic/latest receives the available-dates list, it answers 404
\* with success false and asks for no images if the list is empty or missing,
\* and otherwise makes one request for the images of the date of the first
\* element (sent upstream, or answered by the cache); no request for images
\* is made before the dates have been received, and never a second one.
C23_LatestAsksFirstDate ==
  [][\A r \in Reqs :
       (/\ req'[r] # req[r] /\ req'[r].pc \in {"await", "done"}
        /\ req'[r].route = "epic/latest" /\ EpicType(req'[r].q) \in VALID_TYPES)
       => LET after == req'[r]
              dates == DatesReceived(r)
          IN /\ Cardinality(ImagesCalls(after.calls)) <= 1
             /\ \A i \in ImagesCalls(after.calls) :
                  \A j \in 1..(i - 1) : after.calls[j].result = "ok"
             /\ IsDef(dates)
                  => IF ~Truthy(Val(dates)) \/ Val(dates).arr = <<>>
                     THEN /\ after.pc = "done"
                          /\ after.resp.status = 404
                          /\ ~after.resp.body.success
                          /\ ImagesCalls(after.calls) = {}
                     ELSE LET first == Val(dates).arr[1].date
                              images == <<"/EPIC/api/", EpicType(after.q), "/date/">> \o first
                          IN \/ /\ after.pc = "await"
                                /\ after.calls[Len(after.calls)].endpoint = images
                                /\ after.calls[Len(after.calls)].result = "pending"
                                /\ ImagesCalls(after.calls) = {Len(after.calls)}
                             \/ /\ after.pc = "done"
                                /\ after.resp.status = 200
                                /\ after.resp.body.meta.date = first
                                /\ ImagesCalls(after.calls) = {}
             /\ (~IsDef(dates) /\ after.pc = "await" /\ req[r].pc = "idle")
                  => ImagesCalls(after.calls) = {}]_vars
\* a request has been answered with the images of 9 January after a dates
\* request and an images request, in that order
C23_Witness ==
  \E r \in Reqs :
    /\ Done(r) /\ req[r].route = "epic/latest" /\ req[r].resp.status = 200
    /\ Len(req[r].calls) = 2
    /\ ~IsImagesCall(req[r].calls[1]) /\ req[r].calls[1].result = "ok"
    /\ Len(Val(req[r].calls[1].payload).arr) = 2
    /\ req[r].calls[2].endpoint = <<"/EPIC/api/", "natural", "/date/">> \o DateStr(2024, 1, 9)
    /\ req[r].resp.body.meta.date = DateStr(2024, 1, 9)

\* C24: a mounted SmartImage whose src can be loaded, directly and through
\* the proxy URL, shows the image and calls onLoad; it does not end in the
\* error state.
C24_LoadableImageShown ==
  (/\ client.kind = "SmartImage" /\ TruthyUrl(client.src)
   /\ Val(client.src) \in client.loadable
   /\ getProxiedUrl(Val(client.src), TRUE) \in client.loadable)
  => ~(client.hasError /\ client.isFinalized)

\* the sources tried are the source, at most retryCount retries of it, and
\* then at most once the fallback image
SourceThenFallback(c) ==
  LET sources == {Val(c.src), getProxiedUrl(Val(c.src), c.useProxy)}
      n == Len(c.tried)
      last == IF c.fallbackAttempted THEN n - 1 ELSE n
  IN /\ last \in 1..(c.retryCount + 1)
     /\ \A i \in 1..last : c.tried[i] \in sources
     /\ c.fallbackAttempted => TruthyUrl(c.fallbackSrc) /\ c.tried[n] = Val(c.fallbackSrc)
\* C25: with every attempt failing or timing out, a SmartImage that has a
\* src tries it, retries it at most retryCount times and then tries the
\* fallback image at most once; while it has not reached the final error state
\* an attempt is running that will time out, it calls onError once, when it
\* reaches that state, and from then on nothing changes until src changes.
C25_FailsOnceAfterRetries ==
  [][(client'.kind = "SmartImage" /\ TruthyUrl(client'.src))
     => /\ client'.retryAttempts <= client'.retryCount
        /\ SourceThenFallback(client')
        /\ client'.isFinalized <=> client'.hasError
        /\ client'.onErrorCalls = (IF client'.isFinalized THEN 1 ELSE 0)
        /\ ~client'.isFinalized => TimerArmed(client')
        /\ (client.isFinalized /\ client'.src = client.src) => client' = client]_vars
\* a NASA image with two retries and a fallback has failed for good after the
\* proxy URL, the direct URL, the proxy URL again and the fallback image
C25_Witness ==
  /\ client.kind = "SmartImage"
  /\ client.isFinalized /\ client.hasError /\ ~client.isLoading
  /\ client.onErrorCalls = 1
  /\ client.tried = <<getProxiedUrl(NasaUrl, TRUE), NasaUrl, getProxiedUrl(NasaUrl, TRUE),
                      PlaceholderUrl>>

\* the upstream call slot r is waiting for fails in this step
CallFails(r) ==
  /\ req[r].pc = "await"
  /\ req'[r].pc # "idle"
  /\ req'[r].calls[Len(req[r].calls)].result = "failed"
\* the cache key of the call slot r is waiting for
AwaitedKey(r) ==
  IF req[r].route = "proxy/image" THEN req[r].call.cacheKey ELSE req[r].call.args.cacheKey
\* C26: a failed upstream call writes to no cache: the step in which
\* makeRequest throws, or in which the fetch of /proxy/image fails, leaves the
\* entries of both caches as they were, and a lookup of the key of the failed
\* call finds after the step what it found before it, so a key that missed
\* still misses.
C26_FailureWritesNothing ==
  [][\A r \in Reqs :
       CallFails(r)
       => /\ cache' = cache
          /\ imageCache' = imageCache
          /\ IF req[r].route = "proxy/image"
             THEN CacheGet(imageCache', AwaitedKey(r), now')
                    = CacheGet(imageCache, AwaitedKey(r), now)
             ELSE CacheGet(cache', AwaitedKey(r), now')
                    = CacheGet(cache, AwaitedKey(r), now)]_vars
\* the second call of a two-call request has failed and the cache holds the
\* payload of the first call and nothing else
C26_Witness ==
  \E r \in Reqs :
    /\ Done(r) /\ Len(req[r].calls) = 2
    /\ req[r].calls[1].result = "ok" /\ req[r].calls[2].result = "failed"
    /\ Cardinality(DOMAIN cache) = 1
    /\ \A k \in DOMAIN cache : cache[k].v = Val(req[r].calls[1].payload)

\* slot r started an upstream call for the API cache (the image cache) and the
\* cache has been cleared since: every started call has counted a lookup and
\* only a clear sets the counters back to zero
ClearedWhileAwaiting(r) ==
  /\ req[r].pc = "await" /\ req[r].route # "proxy/image"
  /\ stats = ZeroStats
ImageClearedWhileAwaiting(r) ==
  /\ req[r].pc = "await" /\ req[r].route = "proxy/image"
  /\ imageStats = ZeroStats
\* C27: once a clear has returned, the cache takes no payload of an upstream
\* call that was started before the clear: while such a call is the only use
\* of the cache since the clear, the cache stays empty.
C27_NoStalePayloadAfterClear ==
  [][\A r \in Reqs :
       /\ ClearedWhileAwaiting(r) => cache' = EmptyCache
       /\ ImageClearedWhileAwaiting(r) => imageCache' = EmptyCache]_vars

ServiceFunctions == {sc.fn : sc \in ServiceCalls}
\* C28: two service calls with the same cache key, compared as strings, have
\* the same upstream endpoint and the same forwarded parameters.
C28_KeyInjective ==
  \A r1, r2 \in Reqs :
    (/\ Done(r1) /\ req[r1].route \in ServiceFunctions
     /\ Done(r2) /\ req[r2].route \in ServiceFunctions
     /\ KeyText(req[r1].resp.ret.cacheKey) = KeyText(req[r2].resp.ret.cacheKey))
    => /\ req[r1].resp.ret.endpoint = req[r2].resp.ret.endpoint
       /\ req[r1].resp.ret.params = req[r2].resp.ret.params
\* getEPICImages has been called without a date and with today's date: the
\* arguments differ, the keys are the same, and so is the upstream request
C28_Witness ==
  \E r1, r2 \in Reqs :
    /\ Done(r1) /\ req[r1].route = "getEPICImages"
    /\ Done(r2) /\ req[r2].route = "getEPICImages"
    /\ req[r1].q[1] = JNull /\ req[r2].q[1] = JStr(IsoDate(StartTime))
    /\ KeyText(req[r1].resp.ret.cacheKey) = KeyText(req[r2].resp.ret.cacheKey)
    /\ req[r1].resp.ret.endpoint = req[r2].resp.ret.endpoint

\* C29: GET /proxy/cache/stats changes neither the entries nor the hit and
\* miss counters of the image cache, and the hit count it reports is the
\* number of /proxy/image requests answered from the cache so far (while the
\* cache is never cleared and only /proxy/image looks entries up, the hit
\* counter).
C29_StatsReadOnly ==
  [][\A r \in Reqs :
       (req[r].pc = "idle" /\ req'[r].pc = "done" /\ req'[r].route = "proxy/cache/stats")
       => /\ imageCache' = imageCache
          /\ imageStats' = imageStats
          /\ req'[r].resp.body.data.obj.stats.hits = imageStats.hits]_vars

\* C30: withRetry makes at most maxRetries attempts; an attempt that succeeds
\* is the last one and withRetry resolves with what it returned; withRetry
\* resolves with nothing else, and it rejects only after maxRetries failed
\* attempts, with the error of the last one.
C30_RetryContract ==
  client.kind = "withRetry"
  => LET n == Len(client.attempts)
     IN /\ n <= (IF client.maxRetries > 0 THEN client.maxRetries ELSE 0)
        /\ \A k \in 1..n : "ret" \in DOMAIN client.attempts[k]
                             => k = n /\ client.pc = "resolved"
        /\ client.pc = "resolved"
             => n >= 1 /\ client.attempts[n] = Ret(client.value)
        /\ client.pc = "rejected"
             => n = client.maxRetries /\ client.attempts[n] = Threw(Val(client.error))

=============================================================================
